---- MODULE Spec2Model ----
(***************************************************************************)
(* SDEI virtualization for KVM/arm64 (arch/arm64/kvm/sdei.c): the          *)
(* registration table, the per-VCPU event state, the delivery engine and   *)
(* the hypercall dispatcher, as a state machine.                           *)
(*                                                                         *)
(* A 64-bit value is held as the TLA+ integer of its two's-complement      *)
(* reading (SDEI_DENIED is -3; a value with any of the bits 63..32 set is  *)
(* negative).  The 32-bit SMCCC function identifiers, which               *)
(* smccc_get_function() reads as a u32, are held as their 32-bit           *)
(* two's-complement reading, since TLC integers are 32 bits wide.          *)
(***************************************************************************)
EXTENDS Integers, Sequences, FiniteSets, TLC

\* ------------------------------------------------------------------ bounds

\* Most instances (pending or running) one registration record may hold.
MaxInject == 2

\* Most events the management plane defines on top of the default one.
MaxDefined == 1

\* Most asynchronous page faults a VCPU sets up.
MaxFaults == 2

\* order_base_2(ASYNC_PF_PER_VCPU): the table of faulting pages of a VCPU
\* has 2 ^ SlotOrder slots.
SlotOrder == 2

\* The pages that fault are 1..MaxGfn: more than the table has slots, so
\* that their hashes collide.
MaxGfn == 7

\* ------------------------------------------------- constants of the program

KVM_SDEI_INVALID_NUM == 0
KVM_SDEI_DEFAULT_NUM == 1077936128
KVM_SDEI_EV_NUM_TYPE_SHIFT == 22
KVM_SDEI_EV_NUM_TYPE_MASK == 3
KVM_SDEI_EV_NUM_TYPE_VIRT == 1
KVM_SDEI_NOTIFY_DELIVERED == 0
KVM_SDEI_NOTIFY_COMPLETED == 1

\* Number of saved general-purpose registers, ARRAY_SIZE(regs->regs).
NR_REGS == 18

\* include/uapi/linux/arm_sdei.h
SDEI_SUCCESS == 0
SDEI_NOT_SUPPORTED == -1
SDEI_INVALID_PARAMETERS == -2
SDEI_DENIED == -3
SDEI_PENDING == -5
SDEI_OUT_OF_RESOURCE == -10
SDEI_EVENT_TYPE_PRIVATE == 0
SDEI_EVENT_TYPE_SHARED == 1
SDEI_EVENT_PRIORITY_NORMAL == 0
SDEI_EVENT_PRIORITY_CRITICAL == 1
SDEI_EVENT_REGISTER_RM_ANY == 0
SDEI_EVENT_REGISTER_RM_PE == 1
SDEI_EVENT_STATUS_RUNNING == 0
SDEI_EVENT_STATUS_ENABLED == 1
SDEI_EVENT_STATUS_REGISTERED == 2
SDEI_EVENT_INFO_EV_TYPE == 0
SDEI_EVENT_INFO_EV_SIGNALED == 1
SDEI_EVENT_INFO_EV_PRIORITY == 2
SDEI_EVENT_INFO_EV_ROUTING_MODE == 3
SDEI_EVENT_INFO_EV_ROUTING_AFF == 4
SDEI_VERSION_MAJOR_SHIFT == 48

\* include/linux/arm-smccc.h, include/linux/arm_sdei.h: SDEI_1_0_FN(n) is
\* 0xC4000020 + n, here as a 32-bit two's-complement value.
SDEI_1_0_FN_BASE == -1006632928
SDEI_1_0_FN(n) == SDEI_1_0_FN_BASE + n
SDEI_1_0_FN_SDEI_VERSION == SDEI_1_0_FN(0)
SDEI_1_0_FN_SDEI_EVENT_REGISTER == SDEI_1_0_FN(1)
SDEI_1_0_FN_SDEI_EVENT_ENABLE == SDEI_1_0_FN(2)
SDEI_1_0_FN_SDEI_EVENT_DISABLE == SDEI_1_0_FN(3)
SDEI_1_0_FN_SDEI_EVENT_CONTEXT == SDEI_1_0_FN(4)
SDEI_1_0_FN_SDEI_EVENT_COMPLETE == SDEI_1_0_FN(5)
SDEI_1_0_FN_SDEI_EVENT_COMPLETE_AND_RESUME == SDEI_1_0_FN(6)
SDEI_1_0_FN_SDEI_EVENT_UNREGISTER == SDEI_1_0_FN(7)
SDEI_1_0_FN_SDEI_EVENT_STATUS == SDEI_1_0_FN(8)
SDEI_1_0_FN_SDEI_EVENT_GET_INFO == SDEI_1_0_FN(9)
SDEI_1_0_FN_SDEI_EVENT_ROUTING_SET == SDEI_1_0_FN(10)
SDEI_1_0_FN_SDEI_PE_MASK == SDEI_1_0_FN(11)
SDEI_1_0_FN_SDEI_PE_UNMASK == SDEI_1_0_FN(12)
SDEI_1_0_FN_SDEI_INTERRUPT_BIND == SDEI_1_0_FN(13)
SDEI_1_0_FN_SDEI_INTERRUPT_RELEASE == SDEI_1_0_FN(14)
SDEI_1_0_FN_SDEI_PRIVATE_RESET == SDEI_1_0_FN(17)
SDEI_1_0_FN_SDEI_SHARED_RESET == SDEI_1_0_FN(18)

\* arch/arm64/include/uapi/asm/ptrace.h
PSR_MODE_EL1h == 5
PSR_MODE_MASK == 15
PSR_MODE32_BIT == 16
PSR_F_BIT == 64
PSR_I_BIT == 128
PSR_A_BIT == 256
PSR_D_BIT == 512

\* ------------------------------------------------------------- bit helpers

\* The operands of the bit operators are bound as values (x, y) before the
\* bits are walked, so that an operand that is itself a bit operation is
\* computed once.
RECURSIVE BitOr(_, _)
\* a | b on non-negative values.
BitOr(a, b) ==
  CHOOSE r \in { IF x = 0 THEN y
                 ELSE IF y = 0 THEN x
                 ELSE (IF x % 2 = 1 \/ y % 2 = 1 THEN 1 ELSE 0)
                      + 2 * BitOr(x \div 2, y \div 2) : x \in {a}, y \in {b} } : TRUE

RECURSIVE BitAndNot(_, _)
\* a & ~b on non-negative values.
BitAndNot(a, b) ==
  CHOOSE r \in { IF x = 0 THEN 0
                 ELSE IF y = 0 THEN x
                 ELSE (IF x % 2 = 1 /\ y % 2 = 0 THEN 1 ELSE 0)
                      + 2 * BitAndNot(x \div 2, y \div 2) : x \in {a}, y \in {b} } : TRUE

RECURSIVE BitAnd(_, _)
\* a & b on non-negative values.
BitAnd(a, b) ==
  CHOOSE r \in { IF x = 0 \/ y = 0 THEN 0
                 ELSE (IF x % 2 = 1 /\ y % 2 = 1 THEN 1 ELSE 0)
                      + 2 * BitAnd(x \div 2, y \div 2) : x \in {a}, y \in {b} } : TRUE

\* num >> 32 is zero: no bit of 63..32 is set.
HighWordIsZero(num) == num >= 0 /\ (num \div 65536) \div 65536 = 0

\* ------------------------------------------------------------------- state

\* The VCPUs of the VM, by vcpu_idx.
Vcpus == {0, 1}

\* The threads that enter the SDEI code: the thread of each VCPU, named by
\* the VCPU's index, and one more for the VM's ioctls and the work another
\* subsystem does on the VM's behalf.
Threads == 0..Cardinality(Vcpus)

\* Indexes of the per-event arrays (entries, params, registered, enabled).
Indexes == Vcpus

VARIABLES
  events,      \* ksdei->events: sequence of kvm_sdei_event
  kvm_events,  \* ksdei->kvm_events: sequence of kvm_sdei_kvm_event
  vsdei,       \* vcpu->arch.sdei, per VCPU
  vcpu_regs,   \* the guest's live context, per VCPU
  requests,    \* KVM_REQ_SDEI pending, per VCPU
  oops,        \* the host has faulted (a kernel NULL pointer dereference)
  notified,    \* per VCPU and lane, the phases the event's notifier has
               \* been called with for the lane's latest instance, and the
               \* last call of a notifier on the VCPU: the function called
               \* and its arguments
  apf,         \* vcpu->arch.apf, vcpu->async_pf and the words the
               \* asynchronous page fault shares with the guest, per VCPU
  selftest,    \* tools/testing/selftests/kvm/aarch64/sdei.c: the command
               \* sent and vcpu_states[].state, per VCPU
  arch_sdei,   \* kvm->arch.sdei and, per VCPU, vcpu->arch.sdei: "none" while
               \* the VM or VCPU is not created, then "set" or "null"
  completing,  \* per VCPU, where kvm_sdei_hypercall_complete stands in
               \* kske->state.refcount-- (sdei.c:371): << >> outside it,
               \* <<num, value>> between the load of the count of event
               \* num's record and the store of the decremented value
  locks        \* per thread, the function it executes ("" for none), the
               \* spinlocks it has still to take there and the ones it
               \* holds, the last taken first

vars == <<events, kvm_events, vsdei, vcpu_regs, requests, oops, notified, apf,
          selftest, arch_sdei, completing, locks>>

\* struct kvm_sdei_vcpu_regs, zeroed.
ZeroRegs == [regs |-> [i \in 0..(NR_REGS - 1) |-> 0], pc |-> 0, pstate |-> 0]

\* static struct kvm_sdei_event_state defined_kse[]
defined_kse ==
  << [num |-> KVM_SDEI_DEFAULT_NUM, type |-> SDEI_EVENT_TYPE_PRIVATE,
      signaled |-> 1, priority |-> SDEI_EVENT_PRIORITY_CRITICAL,
      notifier |-> 0] >>

\* kvm_sdei_init_vm: the event list holds the defined events, no KVM event.
kvm_sdei_init_vm == [events |-> defined_kse, kvm_events |-> << >>]

\* kvm_sdei_create_vcpu: masked, both lanes empty, nothing queued.
kvm_sdei_create_vcpu ==
  [masked |-> 1,
   critical_num |-> KVM_SDEI_INVALID_NUM,
   normal_num |-> KVM_SDEI_INVALID_NUM,
   critical_regs |-> ZeroRegs,
   normal_regs |-> ZeroRegs,
   critical_event |-> 0,
   normal_event |-> 0,
   critical_events |-> << >>,
   normal_events |-> << >>]


\* struct kvm_vcpu's guest context as far as SDEI touches it.
ResetContext == [regs |-> [i \in 0..(NR_REGS - 1) |-> 0], pc |-> 0, pstate |-> 0,
                 spsr_el1 |-> 0, elr_el1 |-> 0, vbar_el1 |-> 0]

\* ------------------------------------------------------- lookups, accessors

RECURSIVE FindFrom(_, _, _)
\* list_for_each_entry: position of the first entry numbered num, from i on;
\* 0 when there is none (NULL).
FindFrom(list, num, i) ==
  IF i > Len(list) THEN 0
  ELSE IF list[i].num = num THEN i
  ELSE FindFrom(list, num, i + 1)

\* kvm_sdei_find_event: position in ksdei->events, 0 for NULL.
kvm_sdei_find_event(num) == FindFrom(events, num, 1)

\* kvm_sdei_find_kvm_event: position in a kvm_events list, 0 for NULL.
kvm_sdei_find_kvm_event(list, num) == FindFrom(list, num, 1)

\* kske->kse: the event a KVM event was created for.
KseOf(kske) == events[kvm_sdei_find_event(kske.num)]

\* kvm_sdei_is_valid_event_num
kvm_sdei_is_valid_event_num(num) ==
  IF ~HighWordIsZero(num) THEN FALSE
  ELSE LET type == (num \div (2 ^ KVM_SDEI_EV_NUM_TYPE_SHIFT)) % (KVM_SDEI_EV_NUM_TYPE_MASK + 1)
       IN  type = KVM_SDEI_EV_NUM_TYPE_VIRT

\* A test of the enabled bit that never finds it set.
EnabledBitIgnored(kske, index) == FALSE

\* A clear that leaves the enabled bit set.
KeepEnabled(kske, index) == kske

\* KVM_SDEI_FLAG_FUNC(registered), KVM_SDEI_FLAG_FUNC(enabled)
kvm_sdei_is_registered(kske, index) == index \in kske.registered
kvm_sdei_is_enabled(kske, index) == index \in kske.enabled
kvm_sdei_empty_registered(kske) == kske.registered = {}
kvm_sdei_set_registered(kske, index) == [kske EXCEPT !.registered = @ \cup {index}]
kvm_sdei_clear_registered(kske, index) == [kske EXCEPT !.registered = @ \ {index}]
kvm_sdei_set_enabled(kske, index) == [kske EXCEPT !.enabled = @ \cup {index}]
kvm_sdei_clear_enabled(kske, index) == [kske EXCEPT !.enabled = @ \ {index}]

\* Every event kept under index 0, as shared events are.
IndexAlwaysShared(kse, v) == 0

\* index = (kse->state.type == SDEI_EVENT_TYPE_PRIVATE) ? vcpu->vcpu_idx : 0
IndexOf(kse, v) == IF kse.type = SDEI_EVENT_TYPE_PRIVATE THEN v ELSE 0

\* list_del of the entry at position i.
ListDel(list, i) == [j \in 1..(Len(list) - 1) |-> IF j < i THEN list[j] ELSE list[j + 1]]

\* A __u8 field keeps the low eight bits of what is stored in it.
U8(x) == x % 256

\* kzalloc'ed struct kvm_sdei_kvm_event
ZeroKske ==
  [num |-> 0, refcount |-> 0, route_mode |-> 0, route_affinity |-> 0,
   entries |-> [i \in Indexes |-> 0], params |-> [i \in Indexes |-> 0],
   registered |-> {}, enabled |-> {}]

\* smccc_set_retval
smccc_set_retval(c, a0, a1, a2, a3) ==
  [c EXCEPT !.regs = [i \in 0..(NR_REGS - 1) |->
     CASE i = 0 -> a0 [] i = 1 -> a1 [] i = 2 -> a2 [] i = 3 -> a3 [] OTHER -> @[i]]]

\* What a handler hands back: its return value and the state it leaves.
\* c is the calling VCPU's context at the trap.
Out(v, c) ==
  [ret |-> SDEI_SUCCESS, kvm_events |-> kvm_events, vs |-> vsdei[v],
   ctxt |-> c, req |-> requests[v], oops |-> FALSE, notified |-> notified[v]]

\* ------------------------------------------------------ hypercall handlers

\* kvm_sdei_hypercall_version
kvm_sdei_hypercall_version(v, c) ==
  \* v1.0.0 is 1UL << SDEI_VERSION_MAJOR_SHIFT, wider than a TLC integer:
  \* the result is held as its major number.
  [Out(v, c) EXCEPT !.ret = 1]

\* A registration that silently registers again over an existing
\* registration.
RegisterOverwrites(v, c, alloc_ok) ==
  LET event_num == c.regs[1]
      k == kvm_sdei_find_kvm_event(kvm_events, event_num)
      e == kvm_sdei_find_event(event_num)
  IN
  IF ~kvm_sdei_is_valid_event_num(event_num)
  THEN [Out(v, c) EXCEPT !.ret = SDEI_INVALID_PARAMETERS]
  ELSE IF ~(c.regs[4] = SDEI_EVENT_REGISTER_RM_ANY \/ c.regs[4] = SDEI_EVENT_REGISTER_RM_PE)
  THEN [Out(v, c) EXCEPT !.ret = SDEI_INVALID_PARAMETERS]
  ELSE IF k # 0
  THEN LET index == IndexOf(KseOf(kvm_events[k]), v)
       IN [Out(v, c) EXCEPT !.kvm_events[k] =
             kvm_sdei_set_registered(
               [kvm_events[k] EXCEPT !.route_mode = U8(c.regs[4]),
                                     !.route_affinity = c.regs[5],
                                     !.entries[index] = c.regs[2],
                                     !.params[index] = c.regs[3]], index)]
  ELSE IF e = 0
  THEN [Out(v, c) EXCEPT !.ret = SDEI_INVALID_PARAMETERS]
  ELSE IF ~alloc_ok
  THEN [Out(v, c) EXCEPT !.ret = SDEI_OUT_OF_RESOURCE]
  ELSE LET index == IndexOf(events[e], v)
       IN [Out(v, c) EXCEPT !.kvm_events = Append(kvm_events,
             kvm_sdei_set_registered(
               [ZeroKske EXCEPT !.num = event_num,
                                !.route_mode = U8(c.regs[5]),
                                !.route_affinity = c.regs[5],
                                !.entries[index] = c.regs[2],
                                !.params[index] = c.regs[3]], index))]

\* kvm_sdei_hypercall_register; alloc_ok is the outcome of kzalloc.
kvm_sdei_hypercall_register(v, c, alloc_ok) ==
  LET event_num == c.regs[1]
      event_entry == c.regs[2]
      event_param == c.regs[3]
      route_mode == c.regs[4]
      route_affinity == c.regs[5]
      k == kvm_sdei_find_kvm_event(kvm_events, event_num)
      e == kvm_sdei_find_event(event_num)
  IN
  IF ~kvm_sdei_is_valid_event_num(event_num)
  THEN [Out(v, c) EXCEPT !.ret = SDEI_INVALID_PARAMETERS]
  ELSE IF ~(route_mode = SDEI_EVENT_REGISTER_RM_ANY \/ route_mode = SDEI_EVENT_REGISTER_RM_PE)
  THEN [Out(v, c) EXCEPT !.ret = SDEI_INVALID_PARAMETERS]
  ELSE IF k # 0
  THEN LET kske == kvm_events[k]
           index == IndexOf(KseOf(kske), v)
       IN IF kvm_sdei_is_registered(kske, index)
          THEN [Out(v, c) EXCEPT !.ret = SDEI_DENIED]
          ELSE [Out(v, c) EXCEPT !.kvm_events[k] =
                  kvm_sdei_set_registered(
                    [kske EXCEPT !.route_mode = U8(route_mode),
                                 !.route_affinity = route_affinity,
                                 !.entries[index] = event_entry,
                                 !.params[index] = event_param], index)]
  ELSE IF e = 0
  THEN [Out(v, c) EXCEPT !.ret = SDEI_INVALID_PARAMETERS]
  ELSE IF ~alloc_ok
  THEN [Out(v, c) EXCEPT !.ret = SDEI_OUT_OF_RESOURCE]
  ELSE LET index == IndexOf(events[e], v)
           kske == kvm_sdei_set_registered(
                     [ZeroKske EXCEPT !.num = event_num,
                                      !.refcount = 0,
                                      !.route_mode = U8(route_affinity),
                                      !.route_affinity = route_affinity,
                                      !.entries[index] = event_entry,
                                      !.params[index] = event_param], index)
       IN [Out(v, c) EXCEPT !.kvm_events = Append(kvm_events, kske)]

\* An enable/disable that answers SDEI_DENIED for an event without a
\* registration record.
EnableDeniesUnknownEvent(v, c, enable) ==
  LET event_num == c.regs[1]
      k == kvm_sdei_find_kvm_event(kvm_events, event_num)
  IN
  IF ~kvm_sdei_is_valid_event_num(event_num)
  THEN [Out(v, c) EXCEPT !.ret = SDEI_INVALID_PARAMETERS]
  ELSE IF k = 0
  THEN [Out(v, c) EXCEPT !.ret = SDEI_DENIED]
  ELSE IF kvm_events[k].refcount # 0
  THEN [Out(v, c) EXCEPT !.ret = SDEI_PENDING]
  ELSE LET kske == kvm_events[k]
           index == IndexOf(KseOf(kske), v)
       IN IF ~kvm_sdei_is_registered(kske, index)
          THEN [Out(v, c) EXCEPT !.ret = SDEI_DENIED]
          ELSE IF enable = kvm_sdei_is_enabled(kske, index)
          THEN [Out(v, c) EXCEPT !.ret = SDEI_DENIED]
          ELSE IF enable
          THEN [Out(v, c) EXCEPT !.kvm_events[k] = kvm_sdei_set_enabled(kske, index)]
          ELSE [Out(v, c) EXCEPT !.kvm_events[k] = kvm_sdei_clear_enabled(kske, index)]

\* An enable or disable that does not look at the instances in flight.
EnableIgnoresRefcount(v, c, enable) ==
  LET event_num == c.regs[1]
      k == kvm_sdei_find_kvm_event(kvm_events, event_num)
  IN
  IF ~kvm_sdei_is_valid_event_num(event_num)
  THEN [Out(v, c) EXCEPT !.ret = SDEI_INVALID_PARAMETERS]
  ELSE IF k = 0
  THEN [Out(v, c) EXCEPT !.ret = SDEI_INVALID_PARAMETERS]
  ELSE LET kske == kvm_events[k]
           index == IndexOf(KseOf(kske), v)
       IN IF ~kvm_sdei_is_registered(kske, index)
          THEN [Out(v, c) EXCEPT !.ret = SDEI_DENIED]
          ELSE IF enable = kvm_sdei_is_enabled(kske, index)
          THEN [Out(v, c) EXCEPT !.ret = SDEI_DENIED]
          ELSE IF enable
          THEN [Out(v, c) EXCEPT !.kvm_events[k] = kvm_sdei_set_enabled(kske, index)]
          ELSE [Out(v, c) EXCEPT !.kvm_events[k] = kvm_sdei_clear_enabled(kske, index)]

\* kvm_sdei_hypercall_enable
kvm_sdei_hypercall_enable(v, c, enable) ==
  LET event_num == c.regs[1]
      k == kvm_sdei_find_kvm_event(kvm_events, event_num)
  IN
  IF ~kvm_sdei_is_valid_event_num(event_num)
  THEN [Out(v, c) EXCEPT !.ret = SDEI_INVALID_PARAMETERS]
  ELSE IF k = 0
  THEN [Out(v, c) EXCEPT !.ret = SDEI_INVALID_PARAMETERS]
  ELSE IF kvm_events[k].refcount # 0
  THEN [Out(v, c) EXCEPT !.ret = SDEI_PENDING]
  ELSE LET kske == kvm_events[k]
           index == IndexOf(KseOf(kske), v)
       IN IF ~kvm_sdei_is_registered(kske, index)
          THEN [Out(v, c) EXCEPT !.ret = SDEI_DENIED]
          ELSE IF enable = kvm_sdei_is_enabled(kske, index)
          THEN [Out(v, c) EXCEPT !.ret = SDEI_DENIED]
          ELSE IF enable
          THEN [Out(v, c) EXCEPT !.kvm_events[k] = kvm_sdei_set_enabled(kske, index)]
          ELSE [Out(v, c) EXCEPT !.kvm_events[k] = kvm_sdei_clear_enabled(kske, index)]

\* An unregistration that does not look at the instances in flight.
UnregisterIgnoresRefcount(v, c) ==
  LET event_num == c.regs[1]
      k == kvm_sdei_find_kvm_event(kvm_events, event_num)
  IN
  IF ~kvm_sdei_is_valid_event_num(event_num)
  THEN [Out(v, c) EXCEPT !.ret = SDEI_INVALID_PARAMETERS]
  ELSE IF k = 0
  THEN [Out(v, c) EXCEPT !.ret = SDEI_INVALID_PARAMETERS]
  ELSE LET kske == kvm_events[k]
           index == IndexOf(KseOf(kske), v)
           cleared == kvm_sdei_clear_registered(kvm_sdei_clear_enabled(kske, index), index)
       IN IF ~kvm_sdei_is_registered(kske, index)
          THEN [Out(v, c) EXCEPT !.ret = SDEI_DENIED]
          ELSE [Out(v, c) EXCEPT !.kvm_events[k] = cleared]

\* An unregistration that keeps the record when its last registered bit
\* goes.
UnregisterKeepsRecord(v, c) ==
  LET event_num == c.regs[1]
      k == kvm_sdei_find_kvm_event(kvm_events, event_num)
  IN
  IF ~kvm_sdei_is_valid_event_num(event_num)
  THEN [Out(v, c) EXCEPT !.ret = SDEI_INVALID_PARAMETERS]
  ELSE IF k = 0
  THEN [Out(v, c) EXCEPT !.ret = SDEI_INVALID_PARAMETERS]
  ELSE IF kvm_events[k].refcount # 0
  THEN [Out(v, c) EXCEPT !.ret = SDEI_PENDING]
  ELSE LET kske == kvm_events[k]
           index == IndexOf(KseOf(kske), v)
           cleared == kvm_sdei_clear_registered(kvm_sdei_clear_enabled(kske, index), index)
       IN IF ~kvm_sdei_is_registered(kske, index)
          THEN [Out(v, c) EXCEPT !.ret = SDEI_DENIED]
          ELSE [Out(v, c) EXCEPT !.kvm_events[k] = cleared]

\* kvm_sdei_hypercall_unregister
kvm_sdei_hypercall_unregister(v, c) ==
  LET event_num == c.regs[1]
      k == kvm_sdei_find_kvm_event(kvm_events, event_num)
  IN
  IF ~kvm_sdei_is_valid_event_num(event_num)
  THEN [Out(v, c) EXCEPT !.ret = SDEI_INVALID_PARAMETERS]
  ELSE IF k = 0
  THEN [Out(v, c) EXCEPT !.ret = SDEI_INVALID_PARAMETERS]
  ELSE IF kvm_events[k].refcount # 0
  THEN [Out(v, c) EXCEPT !.ret = SDEI_PENDING]
  ELSE LET kske == kvm_events[k]
           index == IndexOf(KseOf(kske), v)
           cleared == kvm_sdei_clear_registered(kvm_sdei_clear_enabled(kske, index), index)
       IN IF ~kvm_sdei_is_registered(kske, index)
          THEN [Out(v, c) EXCEPT !.ret = SDEI_DENIED]
          ELSE IF kvm_sdei_empty_registered(cleared)
          THEN [Out(v, c) EXCEPT !.kvm_events = ListDel(kvm_events, k)]
          ELSE [Out(v, c) EXCEPT !.kvm_events[k] = cleared]

RECURSIVE RemoveFrom(_, _, _, _)
\* The list_for_each_entry_safe loop of kvm_sdei_remove_kvm_events, from
\* position i on.
RemoveFrom(list, mask, force, i) ==
  IF i > Len(list) THEN list
  ELSE LET kske == list[i]
           kse == KseOf(kske)
       IN IF (2 ^ kse.type) \notin mask
          THEN RemoveFrom(list, mask, force, i + 1)
          ELSE IF ~force /\ kske.refcount # 0
          THEN RemoveFrom(list, mask, force, i + 1)
          ELSE RemoveFrom(ListDel(list, i), mask, force, i)

\* kvm_sdei_remove_kvm_events; mask is the set of the bits 1 << type.
kvm_sdei_remove_kvm_events(list, mask, force) == RemoveFrom(list, mask, force, 1)

\* kvm_sdei_hypercall_reset
kvm_sdei_hypercall_reset(v, c, private) ==
  LET mask == IF private THEN {2 ^ SDEI_EVENT_TYPE_PRIVATE}
                         ELSE {2 ^ SDEI_EVENT_TYPE_SHARED}
  IN [Out(v, c) EXCEPT !.kvm_events = kvm_sdei_remove_kvm_events(kvm_events, mask, FALSE)]

\* A mask/unmask that succeeds whatever the flag is.
MaskAlwaysSucceeds(v, c, mask) ==
  [Out(v, c) EXCEPT !.vs.masked = IF mask THEN 1 ELSE 0]

\* kvm_sdei_hypercall_mask
kvm_sdei_hypercall_mask(v, c, mask) ==
  IF (IF mask THEN 1 ELSE 0) = vsdei[v].masked
  THEN [Out(v, c) EXCEPT !.ret = SDEI_DENIED]
  ELSE [Out(v, c) EXCEPT !.vs.masked = IF mask THEN 1 ELSE 0]


\* kvm_sdei_hypercall_context.  The bound is tested with ">", so index 18
\* passes it and regs->regs[18] is read one past the array: ub tells what
\* the build makes of that read ("fault", or "in_struct" for the word that
\* follows the array in struct kvm_sdei_vcpu_regs, which is pc).
kvm_sdei_hypercall_context(v, c, ub) ==
  LET index == c.regs[1]
      vs == vsdei[v]
      saved == IF vs.critical_event # 0 THEN vs.critical_regs ELSE vs.normal_regs
  IN
  IF index < 0 \/ index > NR_REGS
  THEN [Out(v, c) EXCEPT !.ret = SDEI_INVALID_PARAMETERS]
  ELSE IF ~(vs.critical_event # 0 \/ vs.normal_event # 0)
  THEN [Out(v, c) EXCEPT !.ret = SDEI_DENIED]
  ELSE IF index < NR_REGS
  THEN [Out(v, c) EXCEPT !.ret = saved.regs[index]]
  ELSE IF ub = "fault"
  THEN [Out(v, c) EXCEPT !.oops = TRUE]
  ELSE [Out(v, c) EXCEPT !.ret = saved.pc]

\* A __u32 counter after "--": 0 wraps to 0xFFFFFFFF, held as -1.
U32Dec(x) == IF x = 0 THEN -1 ELSE x - 1

\* kvm_inject_irq(vcpu) as the completion path uses it, on the context c the
\* VCPU has when it is called: the interrupted context goes to
\* ELR_EL1/SPSR_EL1 and the VCPU enters EL1h with DAIF masked at the
\* interrupt vector of the mode it was interrupted in (from EL1h, from
\* EL1t, from a lower level in AArch64, in AArch32).
kvm_inject_irq(c) ==
  [c EXCEPT !.elr_el1 = c.pc,
            !.spsr_el1 = c.pstate,
            !.pc = c.vbar_el1 +
                   (IF BitAnd(c.pstate, PSR_MODE32_BIT) # 0 THEN 1664
                    ELSE IF BitAnd(c.pstate, PSR_MODE_MASK) = PSR_MODE_EL1h THEN 640
                    ELSE IF BitAnd(c.pstate, PSR_MODE_MASK) = 4 THEN 128
                    ELSE 1152),
            !.pstate = BitOr(BitAndNot(BitOr(c.pstate,
                               PSR_D_BIT + PSR_A_BIT + PSR_I_BIT + PSR_F_BIT),
                             PSR_MODE_MASK), PSR_MODE_EL1h)]

\* The ksve->state.refcount--, list_del part of kvm_sdei_hypercall_complete.
PutVcpuEvent(list, num) ==
  LET i == FindFrom(list, num, 1)
  IN IF i = 0 THEN list
     ELSE IF U32Dec(list[i].refcount) = 0 THEN ListDel(list, i)
     ELSE [list EXCEPT ![i].refcount = U32Dec(@)]

\* A restore that leaves x0..x17 as the handler had them.
RestoreContextKeepsRegs(c, saved) ==
  [c EXCEPT !.pstate = saved.pstate, !.pc = saved.pc]

\* "Restore registers: x0 -> x17, PC, PState" of kvm_sdei_hypercall_complete
RestoreContext(c, saved) ==
  [c EXCEPT !.regs = saved.regs, !.pstate = saved.pstate, !.pc = saved.pc]

\* A completion that never asks for another delivery.
CompleteWithoutRequest(v, c, resume) ==
  LET vs == vsdei[v]
      critical == vs.critical_event # 0
      ksve == IF critical THEN vs.critical_event ELSE vs.normal_event
      saved == IF critical THEN vs.critical_regs ELSE vs.normal_regs
      vs1 == IF critical
             THEN [vs EXCEPT !.critical_event = 0, !.critical_num = KVM_SDEI_INVALID_NUM]
             ELSE [vs EXCEPT !.normal_event = 0, !.normal_num = KVM_SDEI_INVALID_NUM]
      c1 == RestoreContext(c, saved)
      c2 == IF resume THEN kvm_inject_irq(c1) ELSE c1
      k == kvm_sdei_find_kvm_event(kvm_events, ksve)
      notifier == KseOf(kvm_events[k]).notifier
      vs2 == [vs1 EXCEPT !.critical_events = PutVcpuEvent(@, ksve),
                         !.normal_events = PutVcpuEvent(@, ksve)]
  IN
  IF vs.critical_event = 0 /\ vs.normal_event = 0
  THEN [Out(v, c) EXCEPT !.ret = SDEI_DENIED]
  ELSE [Out(v, c) EXCEPT
          !.vs = vs2,
          !.ctxt = c2,
          !.notified = IF notifier = 0 THEN @
                       ELSE IF critical
                       THEN [@ EXCEPT !.critical = Append(@, KVM_SDEI_NOTIFY_COMPLETED),
                                      !.last = <<notifier, v, ksve, KVM_SDEI_NOTIFY_COMPLETED>>]
                       ELSE [@ EXCEPT !.normal = Append(@, KVM_SDEI_NOTIFY_COMPLETED),
                                      !.last = <<notifier, v, ksve, KVM_SDEI_NOTIFY_COMPLETED>>],
          !.kvm_events[k].refcount = U32Dec(@),
          !.req = @]

\* A completion that, with both lanes occupied, completes the normal event
\* first.
CompleteNormalFirst(v, c, resume) ==
  LET vs == vsdei[v]
      critical == vs.critical_event # 0 /\ vs.normal_event = 0
      ksve == IF critical THEN vs.critical_event ELSE vs.normal_event
      saved == IF critical THEN vs.critical_regs ELSE vs.normal_regs
      vs1 == IF critical
             THEN [vs EXCEPT !.critical_event = 0, !.critical_num = KVM_SDEI_INVALID_NUM]
             ELSE [vs EXCEPT !.normal_event = 0, !.normal_num = KVM_SDEI_INVALID_NUM]
      c1 == RestoreContext(c, saved)
      c2 == IF resume THEN kvm_inject_irq(c1) ELSE c1
      k == kvm_sdei_find_kvm_event(kvm_events, ksve)
      notifier == KseOf(kvm_events[k]).notifier
      vs2 == [vs1 EXCEPT !.critical_events = PutVcpuEvent(@, ksve),
                         !.normal_events = PutVcpuEvent(@, ksve)]
  IN
  IF vs.critical_event = 0 /\ vs.normal_event = 0
  THEN [Out(v, c) EXCEPT !.ret = SDEI_DENIED]
  ELSE [Out(v, c) EXCEPT
          !.vs = vs2,
          !.ctxt = c2,
          !.notified = IF notifier = 0 THEN @
                       ELSE IF critical
                       THEN [@ EXCEPT !.critical = Append(@, KVM_SDEI_NOTIFY_COMPLETED),
                                      !.last = <<notifier, v, ksve, KVM_SDEI_NOTIFY_COMPLETED>>]
                       ELSE [@ EXCEPT !.normal = Append(@, KVM_SDEI_NOTIFY_COMPLETED),
                                      !.last = <<notifier, v, ksve, KVM_SDEI_NOTIFY_COMPLETED>>],
          !.kvm_events[k].refcount = U32Dec(@),
          !.req = IF ~(vs2.critical_events = << >> /\ vs2.normal_events = << >>)
                  THEN TRUE ELSE @]

\* kvm_sdei_hypercall_complete
kvm_sdei_hypercall_complete(v, c, resume) ==
  LET vs == vsdei[v]
      critical == vs.critical_event # 0
      ksve == IF critical THEN vs.critical_event ELSE vs.normal_event
      saved == IF critical THEN vs.critical_regs ELSE vs.normal_regs
      vs1 == IF critical
             THEN [vs EXCEPT !.critical_event = 0, !.critical_num = KVM_SDEI_INVALID_NUM]
             ELSE [vs EXCEPT !.normal_event = 0, !.normal_num = KVM_SDEI_INVALID_NUM]
      c1 == RestoreContext(c, saved)
      c2 == IF resume THEN kvm_inject_irq(c1) ELSE c1
      k == kvm_sdei_find_kvm_event(kvm_events, ksve)
      notifier == KseOf(kvm_events[k]).notifier
      vs2 == [vs1 EXCEPT !.critical_events = PutVcpuEvent(@, ksve),
                         !.normal_events = PutVcpuEvent(@, ksve)]
  IN
  IF vs.critical_event = 0 /\ vs.normal_event = 0
  THEN [Out(v, c) EXCEPT !.ret = SDEI_DENIED]
  ELSE [Out(v, c) EXCEPT
          !.vs = vs2,
          !.ctxt = c2,
          !.notified = IF notifier = 0 THEN @
                       ELSE IF critical
                       THEN [@ EXCEPT !.critical = Append(@, KVM_SDEI_NOTIFY_COMPLETED),
                                      !.last = <<notifier, v, ksve, KVM_SDEI_NOTIFY_COMPLETED>>]
                       ELSE [@ EXCEPT !.normal = Append(@, KVM_SDEI_NOTIFY_COMPLETED),
                                      !.last = <<notifier, v, ksve, KVM_SDEI_NOTIFY_COMPLETED>>],
          !.kvm_events[k].refcount = U32Dec(@),
          !.req = IF ~(vs2.critical_events = << >> /\ vs2.normal_events = << >>)
                  THEN TRUE ELSE @]

\* kvm_sdei_hypercall_status.  kse is still NULL when kse->state.type is
\* read: ub tells what the build makes of that read ("fault" for the host's
\* NULL pointer dereference, "private" or "other" for the type it finds).
kvm_sdei_hypercall_status(v, c, ub) ==
  LET event_num == c.regs[1]
      k == kvm_sdei_find_kvm_event(kvm_events, event_num)
  IN
  IF ~kvm_sdei_is_valid_event_num(event_num)
  THEN [Out(v, c) EXCEPT !.ret = SDEI_INVALID_PARAMETERS]
  ELSE IF k = 0
  THEN [Out(v, c) EXCEPT !.ret = 0]
  ELSE IF ub = "fault"
  THEN [Out(v, c) EXCEPT !.oops = TRUE]
  ELSE LET kske == kvm_events[k]
           index == IF ub = "private" THEN v ELSE 0
       IN [Out(v, c) EXCEPT !.ret =
            (IF kvm_sdei_is_registered(kske, index)
             THEN 2 ^ SDEI_EVENT_STATUS_REGISTERED ELSE 0)
            + (IF kvm_sdei_is_enabled(kske, index)
               THEN 2 ^ SDEI_EVENT_STATUS_ENABLED ELSE 0)
            + (IF kske.refcount # 0
               THEN 2 ^ SDEI_EVENT_STATUS_RUNNING ELSE 0)]

\* kvm_sdei_hypercall_info
kvm_sdei_hypercall_info(v, c) ==
  LET event_num == c.regs[1]
      event_info == c.regs[2]
      k == kvm_sdei_find_kvm_event(kvm_events, event_num)
      e == kvm_sdei_find_event(event_num)
  IN
  IF ~kvm_sdei_is_valid_event_num(event_num)
  THEN [Out(v, c) EXCEPT !.ret = SDEI_INVALID_PARAMETERS]
  ELSE IF k = 0 /\ e = 0
  THEN [Out(v, c) EXCEPT !.ret = SDEI_INVALID_PARAMETERS]
  ELSE LET kse == events[e]
       IN [Out(v, c) EXCEPT !.ret =
            CASE event_info = SDEI_EVENT_INFO_EV_TYPE -> kse.type
              [] event_info = SDEI_EVENT_INFO_EV_SIGNALED -> kse.signaled
              [] event_info = SDEI_EVENT_INFO_EV_PRIORITY -> kse.priority
              [] event_info \in {SDEI_EVENT_INFO_EV_ROUTING_MODE,
                                 SDEI_EVENT_INFO_EV_ROUTING_AFF} ->
                   IF kse.type # SDEI_EVENT_TYPE_SHARED
                   THEN SDEI_INVALID_PARAMETERS
                   ELSE IF event_info = SDEI_EVENT_INFO_EV_ROUTING_MODE
                   THEN (IF k # 0 THEN kvm_events[k].route_mode
                                  ELSE SDEI_EVENT_REGISTER_RM_ANY)
                   ELSE (IF k # 0 THEN kvm_events[k].route_affinity ELSE 0)
              [] OTHER -> SDEI_INVALID_PARAMETERS]

\* A routing change that does not look at the enabled bit nor at the
\* instances in flight.
RouteWhileActive(v, c) ==
  LET event_num == c.regs[1]
      k == kvm_sdei_find_kvm_event(kvm_events, event_num)
  IN
  IF ~kvm_sdei_is_valid_event_num(event_num)
  THEN [Out(v, c) EXCEPT !.ret = SDEI_INVALID_PARAMETERS]
  ELSE IF ~(c.regs[2] = SDEI_EVENT_REGISTER_RM_ANY \/ c.regs[2] = SDEI_EVENT_REGISTER_RM_PE)
  THEN [Out(v, c) EXCEPT !.ret = SDEI_INVALID_PARAMETERS]
  ELSE IF k = 0
  THEN [Out(v, c) EXCEPT !.ret = SDEI_INVALID_PARAMETERS]
  ELSE IF KseOf(kvm_events[k]).type # SDEI_EVENT_TYPE_SHARED
  THEN [Out(v, c) EXCEPT !.ret = SDEI_INVALID_PARAMETERS]
  ELSE IF ~kvm_sdei_is_registered(kvm_events[k], 0)
  THEN [Out(v, c) EXCEPT !.ret = SDEI_DENIED]
  ELSE [Out(v, c) EXCEPT !.kvm_events[k].route_mode = U8(c.regs[2]),
                         !.kvm_events[k].route_affinity = c.regs[3]]

\* kvm_sdei_hypercall_route
kvm_sdei_hypercall_route(v, c) ==
  LET event_num == c.regs[1]
      route_mode == c.regs[2]
      route_affinity == c.regs[3]
      index == 0
      k == kvm_sdei_find_kvm_event(kvm_events, event_num)
  IN
  IF ~kvm_sdei_is_valid_event_num(event_num)
  THEN [Out(v, c) EXCEPT !.ret = SDEI_INVALID_PARAMETERS]
  ELSE IF ~(route_mode = SDEI_EVENT_REGISTER_RM_ANY \/ route_mode = SDEI_EVENT_REGISTER_RM_PE)
  THEN [Out(v, c) EXCEPT !.ret = SDEI_INVALID_PARAMETERS]
  ELSE IF k = 0
  THEN [Out(v, c) EXCEPT !.ret = SDEI_INVALID_PARAMETERS]
  ELSE IF KseOf(kvm_events[k]).type # SDEI_EVENT_TYPE_SHARED
  THEN [Out(v, c) EXCEPT !.ret = SDEI_INVALID_PARAMETERS]
  ELSE IF \/ ~kvm_sdei_is_registered(kvm_events[k], index)
          \/ kvm_sdei_is_enabled(kvm_events[k], index)
          \/ kvm_events[k].refcount # 0
  THEN [Out(v, c) EXCEPT !.ret = SDEI_DENIED]
  ELSE [Out(v, c) EXCEPT !.kvm_events[k].route_mode = U8(route_mode),
                         !.kvm_events[k].route_affinity = route_affinity]

\* What the build can make of the undefined reads a call runs into: the
\* read through the NULL kse in kvm_sdei_hypercall_status, the read one
\* past regs->regs[] in kvm_sdei_hypercall_context.
UndefinedOutcomes(v, c) ==
  IF /\ c.regs[0] = SDEI_1_0_FN_SDEI_EVENT_STATUS
     /\ kvm_sdei_is_valid_event_num(c.regs[1])
     /\ kvm_sdei_find_kvm_event(kvm_events, c.regs[1]) # 0
  THEN {"fault", "private", "other"}
  ELSE IF /\ c.regs[0] = SDEI_1_0_FN_SDEI_EVENT_CONTEXT
          /\ c.regs[1] = NR_REGS
          /\ (vsdei[v].critical_event # 0 \/ vsdei[v].normal_event # 0)
  THEN {"fault", "in_struct"}
  ELSE {"none"}

\* kvm_sdei_hypercall: the dispatcher, on the context c the VCPU trapped with.
kvm_sdei_hypercall(v, c, alloc_ok) ==
  \E ub \in UndefinedOutcomes(v, c) :
  LET func == c.regs[0]
      has_result == func \notin {SDEI_1_0_FN_SDEI_EVENT_COMPLETE,
                                 SDEI_1_0_FN_SDEI_EVENT_COMPLETE_AND_RESUME}
      o == CASE \* "Sanity check", the first step of every handler
                arch_sdei.kvm # "set" \/ arch_sdei.vcpu[v] # "set" ->
                  [Out(v, c) EXCEPT !.ret = SDEI_NOT_SUPPORTED]
             [] func = SDEI_1_0_FN_SDEI_VERSION -> kvm_sdei_hypercall_version(v, c)
             [] func = SDEI_1_0_FN_SDEI_EVENT_REGISTER -> kvm_sdei_hypercall_register(v, c, alloc_ok)
             [] func = SDEI_1_0_FN_SDEI_EVENT_ENABLE -> kvm_sdei_hypercall_enable(v, c, TRUE)
             [] func = SDEI_1_0_FN_SDEI_EVENT_DISABLE -> kvm_sdei_hypercall_enable(v, c, FALSE)
             [] func = SDEI_1_0_FN_SDEI_EVENT_CONTEXT -> kvm_sdei_hypercall_context(v, c, ub)
             [] func = SDEI_1_0_FN_SDEI_EVENT_COMPLETE -> kvm_sdei_hypercall_complete(v, c, FALSE)
             [] func = SDEI_1_0_FN_SDEI_EVENT_COMPLETE_AND_RESUME -> kvm_sdei_hypercall_complete(v, c, TRUE)
             [] func = SDEI_1_0_FN_SDEI_EVENT_UNREGISTER -> kvm_sdei_hypercall_unregister(v, c)
             [] func = SDEI_1_0_FN_SDEI_EVENT_STATUS -> kvm_sdei_hypercall_status(v, c, ub)
             [] func = SDEI_1_0_FN_SDEI_EVENT_GET_INFO -> kvm_sdei_hypercall_info(v, c)
             [] func = SDEI_1_0_FN_SDEI_EVENT_ROUTING_SET -> kvm_sdei_hypercall_route(v, c)
             [] func = SDEI_1_0_FN_SDEI_PE_MASK -> kvm_sdei_hypercall_mask(v, c, TRUE)
             [] func = SDEI_1_0_FN_SDEI_PE_UNMASK -> kvm_sdei_hypercall_mask(v, c, FALSE)
             [] func \in {SDEI_1_0_FN_SDEI_INTERRUPT_BIND,
                          SDEI_1_0_FN_SDEI_INTERRUPT_RELEASE} ->
                  [Out(v, c) EXCEPT !.ret = SDEI_NOT_SUPPORTED]
             [] func = SDEI_1_0_FN_SDEI_PRIVATE_RESET -> kvm_sdei_hypercall_reset(v, c, TRUE)
             [] func = SDEI_1_0_FN_SDEI_SHARED_RESET -> kvm_sdei_hypercall_reset(v, c, FALSE)
             [] OTHER -> [Out(v, c) EXCEPT !.ret = SDEI_NOT_SUPPORTED]
  IN IF o.oops
     THEN \* the VCPU thread dies in the handler; nothing is written back
          /\ oops' = TRUE
          /\ vcpu_regs' = [vcpu_regs EXCEPT ![v] = c]
          /\ UNCHANGED <<events, kvm_events, vsdei, requests, notified, apf,
                         arch_sdei, completing, locks>>
     ELSE /\ kvm_events' = o.kvm_events
          /\ vsdei' = [vsdei EXCEPT ![v] = o.vs]
          /\ vcpu_regs' = [vcpu_regs EXCEPT ![v] =
               IF has_result THEN smccc_set_retval(o.ctxt, o.ret, 0, 0, 0) ELSE o.ctxt]
          /\ requests' = [requests EXCEPT ![v] = o.req]
          /\ notified' = [notified EXCEPT ![v] = o.notified]
          /\ UNCHANGED <<events, oops, apf, arch_sdei, completing, locks>>

\* -------------------------------------------- asynchronous page fault
\* arch/arm64/kvm/async_pf.c and virt/kvm/async_pf.c, as far as they use
\* the SDEI event: the control block of a VCPU, its work items and the
\* reason and token words of struct kvm_vcpu_pv_apf_data.  A work item is
\* held as its token.

KVM_PV_REASON_PAGE_NOT_PRESENT == 1
KVM_PV_REASON_PAGE_READY == 2

\* apf->sdei_event_num, as KVM_ARM_ASYNC_PF_CMD_SET_SDEI has set it.
sdei_event_num == KVM_SDEI_DEFAULT_NUM

\* (unsigned long)kvm_arch_async_sdei_notifier, the value
\* kvm_arch_async_enable registers as the event's notifier (0 is none).
AsyncNotifier == 1

\* The empty slot, ~0.
EmptySlot == -1

\* ASYNC_PF_PER_VCPU, a power of two.
ASYNC_PF_PER_VCPU == 2 ^ SlotOrder

\* kvm_async_pf_hash: hash_32(gfn & 0xffffffff, order_base_2(...)), the top
\* bits of the 32-bit product gfn * GOLDEN_RATIO_32 (0x61C88647), computed
\* on the 16-bit halves of the multiplier for a gfn below 2 ^ 15.
kvm_async_pf_hash(gfn) ==
  LET hi == 25032
      lo == 34375
      top == (gfn * hi + ((gfn * lo) \div 65536)) % 65536
  IN top \div (2 ^ (16 - SlotOrder))

\* kvm_async_pf_next_slot
kvm_async_pf_next_slot(key) == (key + 1) % ASYNC_PF_PER_VCPU

\* The for loop of kvm_async_pf_slot, at slot key in iteration i.
RECURSIVE SlotLoop(_, _, _, _)
SlotLoop(gfns, gfn, key, i) ==
  IF i < ASYNC_PF_PER_VCPU /\ gfns[key] # gfn /\ gfns[key] # EmptySlot
  THEN SlotLoop(gfns, gfn, kvm_async_pf_next_slot(key), i + 1)
  ELSE key

\* kvm_async_pf_slot
kvm_async_pf_slot(gfns, gfn) == SlotLoop(gfns, gfn, kvm_async_pf_hash(gfn), 0)

\* kvm_async_pf_reset_slot
kvm_async_pf_reset_slot == [i \in 0..(ASYNC_PF_PER_VCPU - 1) |-> EmptySlot]

\* The while loop of kvm_async_pf_add_slot, at slot key with n slots
\* probed: it spins for ever once every slot has been probed.
RECURSIVE AddLoop(_, _, _, _)
AddLoop(gfns, gfn, key, n) ==
  IF n = ASYNC_PF_PER_VCPU THEN [gfns |-> gfns, spins |-> TRUE]
  ELSE IF gfns[key] # EmptySlot
  THEN AddLoop(gfns, gfn, kvm_async_pf_next_slot(key), n + 1)
  ELSE [gfns |-> [gfns EXCEPT ![key] = gfn], spins |-> FALSE]

\* kvm_async_pf_add_slot: the table it leaves, and whether it spins.
kvm_async_pf_add_slot(gfns, gfn) == AddLoop(gfns, gfn, kvm_async_pf_hash(gfn), 0)

\* The loops of kvm_async_pf_remove_slot once gfns[i] has been emptied, at
\* slots i and j after n steps: the slot after j ends the removal when it
\* is empty, is skipped when its entry's hash lies cyclically in ]i, j],
\* and else gives its entry to slot i and becomes the slot to fill.
RECURSIVE RemoveLoop(_, _, _, _)
RemoveLoop(gfns, i, j, n) ==
  LET j1 == kvm_async_pf_next_slot(j)
      k == kvm_async_pf_hash(gfns[j1])
  IN IF n = ASYNC_PF_PER_VCPU * ASYNC_PF_PER_VCPU
     THEN [gfns |-> gfns, spins |-> TRUE]
     ELSE IF gfns[j1] = EmptySlot THEN [gfns |-> gfns, spins |-> FALSE]
     ELSE IF (IF i <= j1 THEN i < k /\ k <= j1 ELSE i < k \/ k <= j1)
     THEN RemoveLoop(gfns, i, j1, n + 1)
     ELSE RemoveLoop([gfns EXCEPT ![i] = gfns[j1], ![j1] = EmptySlot],
                     j1, j1, n + 1)

\* A removal that empties the slot and shifts nothing back.
RemoveWithoutShift(gfns, gfn) ==
  LET i == kvm_async_pf_slot(gfns, gfn)
  IN IF gfns[i] # gfn THEN [gfns |-> gfns, spins |-> FALSE]
     ELSE [gfns |-> [gfns EXCEPT ![i] = EmptySlot], spins |-> FALSE]

\* kvm_async_pf_remove_slot: the table it leaves, and whether it spins.
kvm_async_pf_remove_slot(gfns, gfn) ==
  LET i == kvm_async_pf_slot(gfns, gfn)
  IN IF gfns[i] # gfn THEN [gfns |-> gfns, spins |-> FALSE]
     ELSE RemoveLoop([gfns EXCEPT ![i] = EmptySlot], i, i, 0)

\* kvm_async_pf_find_slot
kvm_async_pf_find_slot(gfns, gfn) == gfns[kvm_async_pf_slot(gfns, gfn)] = gfn

\* kvm_arch_async_pf_create_vcpu, kvm_async_pf_vcpu_init: the control
\* block zeroed, no work queued or done; irqs counts the page-ready
\* interrupts raised.
kvm_arch_async_pf_create_vcpu ==
  [enabled |-> FALSE, notpresent_pending |-> FALSE, notpresent_token |-> 0,
   pageready_pending |-> FALSE, id |-> 0, reason |-> 0, token |-> 0,
   queue |-> {}, done |-> << >>, irqs |-> 0,
   gfns |-> kvm_async_pf_reset_slot]

\* kvm_arch_async_sdei_notifier, the notifier kvm_arch_async_enable
\* registers (held as 1 in the event's notifier field).
kvm_arch_async_sdei_notifier(v, num, state) ==
  IF num # sdei_event_num THEN apf[v]
  ELSE IF state = KVM_SDEI_NOTIFY_DELIVERED /\ apf[v].notpresent_pending
  THEN [apf[v] EXCEPT !.notpresent_token = 0, !.notpresent_pending = FALSE]
  ELSE apf[v]

\* ---------------------------------------------------------------- delivery

\* list_first_entry_or_null, as the number of the entry (0 for NULL).
FirstOrNull(list) == IF list = << >> THEN 0 ELSE list[1].num

\* A handler PSTATE that keeps the execution-state bit of the interrupted
\* context.
HandlerPstateKeepsMode32(pstate) ==
  BitOr(BitAndNot(BitOr(pstate, PSR_D_BIT + PSR_A_BIT + PSR_I_BIT + PSR_F_BIT),
                  PSR_MODE_MASK),
        PSR_MODE_EL1h)

\* The guest's PSTATE on entry to the handler.
HandlerPstate(pstate) ==
  BitAndNot(
    BitOr(BitAndNot(BitOr(pstate, PSR_D_BIT + PSR_A_BIT + PSR_I_BIT + PSR_F_BIT),
                    PSR_MODE_MASK),
          PSR_MODE_EL1h),
    PSR_MODE32_BIT)

\* A selection that lets a normal event preempt a running normal event.
SelectEventOverNormal(vs) ==
  IF vs.critical_event # 0 THEN 0
  ELSE IF vs.critical_events # << >> THEN vs.critical_events[1].num
  ELSE FirstOrNull(vs.normal_events)

\* A selection that lets a critical event preempt a running critical event.
SelectEventOverCritical(vs) ==
  IF vs.critical_events # << >> THEN vs.critical_events[1].num
  ELSE IF vs.normal_event = 0 THEN FirstOrNull(vs.normal_events)
  ELSE 0

\* A selection that delivers nothing while any event is running.
SelectEventNoPreemption(vs) ==
  IF vs.critical_event # 0 \/ vs.normal_event # 0 THEN 0
  ELSE IF vs.critical_events # << >> THEN vs.critical_events[1].num
  ELSE FirstOrNull(vs.normal_events)

\* The head of kvm_sdei_deliver: the event it delivers, 0 when it returns
\* without delivering.  The critical event can't be preempted; a critical
\* event is picked before a normal one; the normal event can be preempted
\* by a critical event only.
SelectEvent(vs) ==
  LET first == FirstOrNull(vs.critical_events)
  IN IF vs.critical_event # 0 THEN 0
     ELSE IF first = 0 /\ vs.normal_event = 0
     THEN FirstOrNull(vs.normal_events)
     ELSE first

\* A delivery that occupies the lane without recording the event's number
\* in state.critical_num or state.normal_num.
DeliverWithoutNum(v) ==
  LET vs == vsdei[v]
      c == vcpu_regs[v]
      ksve == SelectEvent(vs)
  IN
  IF arch_sdei.kvm # "set" \/ arch_sdei.vcpu[v] # "set" \/ ksve = 0
  THEN [vs |-> vs, ctxt |-> c, notified |-> notified[v], apf |-> apf[v]]
  ELSE
    LET kske == kvm_events[kvm_sdei_find_kvm_event(kvm_events, ksve)]
        kse == KseOf(kske)
        saved == [regs |-> c.regs, pc |-> c.pc, pstate |-> c.pstate]
        index == IndexOf(kse, v)
        called == IF kse.notifier = 0 THEN << >> ELSE <<KVM_SDEI_NOTIFY_DELIVERED>>
        last == IF kse.notifier = 0 THEN notified[v].last
                ELSE <<kse.notifier, v, kse.num, KVM_SDEI_NOTIFY_DELIVERED>>
    IN [vs |-> IF kse.priority = SDEI_EVENT_PRIORITY_CRITICAL
               THEN [vs EXCEPT !.critical_event = ksve,
                               !.critical_regs = saved]
               ELSE [vs EXCEPT !.normal_event = ksve,
                               !.normal_regs = saved],
        ctxt |-> [c EXCEPT
                    !.regs = [i \in 0..(NR_REGS - 1) |->
                                CASE i = 0 -> kske.num
                                  [] i = 1 -> kske.params[index]
                                  [] i = 2 -> saved.pc
                                  [] i = 3 -> saved.pstate
                                  [] OTHER -> 0],
                    !.spsr_el1 = saved.pstate,
                    !.pstate = HandlerPstate(saved.pstate),
                    !.pc = kske.entries[index]],
        notified |-> IF kse.priority = SDEI_EVENT_PRIORITY_CRITICAL
                     THEN [notified[v] EXCEPT !.critical = called, !.last = last]
                     ELSE [notified[v] EXCEPT !.normal = called, !.last = last],
        apf |-> IF kse.notifier # AsyncNotifier THEN apf[v]
                ELSE kvm_arch_async_sdei_notifier(v, kse.num, KVM_SDEI_NOTIFY_DELIVERED)]

\* kvm_sdei_deliver: the VCPU's SDEI state and context it leaves.
kvm_sdei_deliver(v) ==
  LET vs == vsdei[v]
      c == vcpu_regs[v]
      ksve == SelectEvent(vs)
  IN
  IF arch_sdei.kvm # "set" \/ arch_sdei.vcpu[v] # "set" \/ ksve = 0
  THEN [vs |-> vs, ctxt |-> c, notified |-> notified[v], apf |-> apf[v]]
  ELSE
    LET kske == kvm_events[kvm_sdei_find_kvm_event(kvm_events, ksve)]
        kse == KseOf(kske)
        saved == [regs |-> c.regs, pc |-> c.pc, pstate |-> c.pstate]
        index == IndexOf(kse, v)
        called == IF kse.notifier = 0 THEN << >> ELSE <<KVM_SDEI_NOTIFY_DELIVERED>>
        last == IF kse.notifier = 0 THEN notified[v].last
                ELSE <<kse.notifier, v, kse.num, KVM_SDEI_NOTIFY_DELIVERED>>
    IN [vs |-> IF kse.priority = SDEI_EVENT_PRIORITY_CRITICAL
               THEN [vs EXCEPT !.critical_event = ksve,
                               !.critical_num = ksve,
                               !.critical_regs = saved]
               ELSE [vs EXCEPT !.normal_event = ksve,
                               !.normal_num = ksve,
                               !.normal_regs = saved],
        ctxt |-> [c EXCEPT
                    !.regs = [i \in 0..(NR_REGS - 1) |->
                                CASE i = 0 -> kske.num
                                  [] i = 1 -> kske.params[index]
                                  [] i = 2 -> saved.pc
                                  [] i = 3 -> saved.pstate
                                  [] OTHER -> 0],
                    !.spsr_el1 = saved.pstate,
                    !.pstate = HandlerPstate(saved.pstate),
                    !.pc = kske.entries[index]],
        notified |-> IF kse.priority = SDEI_EVENT_PRIORITY_CRITICAL
                     THEN [notified[v] EXCEPT !.critical = called, !.last = last]
                     ELSE [notified[v] EXCEPT !.normal = called, !.last = last],
        apf |-> IF kse.notifier # AsyncNotifier THEN apf[v]
                ELSE kvm_arch_async_sdei_notifier(v, kse.num, KVM_SDEI_NOTIFY_DELIVERED)]

\* ------------------------------------------------ injection, cancellation

\* A busy test that looks at the running events only.
VcpuBusyRunningOnly(vs) ==
  \/ vs.critical_event # 0
  \/ vs.normal_event # 0

\* Whether anything is pending or running on the VCPU.
VcpuBusy(vs) ==
  \/ vs.critical_event # 0
  \/ vs.normal_event # 0
  \/ vs.critical_events # << >>
  \/ vs.normal_events # << >>

\* Queue one more instance of event num on a per-VCPU list.
GetVcpuEvent(list, num) ==
  LET i == FindFrom(list, num, 1)
  IN IF i = 0 THEN Append(list, [num |-> num, refcount |-> 1])
     ELSE [list EXCEPT ![i].refcount = @ + 1]

\* kvm_sdei_inject(vcpu, num, immediate)
kvm_sdei_inject(v, num, immediate) ==
  LET vs == vsdei[v]
      k == kvm_sdei_find_kvm_event(kvm_events, num)
      same == [ret |-> "Ok", kvm_events |-> kvm_events, vs |-> vs, req |-> requests[v]]
  IN
  IF ~kvm_sdei_is_valid_event_num(num) \/ k = 0
  THEN [same EXCEPT !.ret = "NotRegistered"]
  ELSE
    LET kske == kvm_events[k]
        kse == KseOf(kske)
        index == IndexOf(kse, v)
    IN
    IF ~(kvm_sdei_is_registered(kske, index) /\ kvm_sdei_is_enabled(kske, index))
    THEN [same EXCEPT !.ret = "NotRegistered"]
    ELSE IF immediate /\ (vs.masked = 1 \/ VcpuBusy(vs))
    THEN [same EXCEPT !.ret = "Busy"]
    ELSE [same EXCEPT
            !.kvm_events[k].refcount = @ + 1,
            !.vs = IF kse.priority = SDEI_EVENT_PRIORITY_CRITICAL
                   THEN [vs EXCEPT !.critical_events = GetVcpuEvent(@, num)]
                   ELSE [vs EXCEPT !.normal_events = GetVcpuEvent(@, num)],
            !.req = IF vs.masked = 0 THEN TRUE ELSE @]

\* A drop that leaves the entry on the list.
KeepVcpuEvent(list, num) == list

\* Drop the not-yet-delivered entry of event num from a per-VCPU list.
DropVcpuEvent(list, num) ==
  LET i == FindFrom(list, num, 1)
  IN IF i = 0 THEN list ELSE ListDel(list, i)

\* The instances of event num queued on a per-VCPU list.
QueuedOn(list, num) ==
  LET i == FindFrom(list, num, 1)
  IN IF i = 0 THEN 0 ELSE list[i].refcount

\* kvm_sdei_cancel(vcpu, num)
kvm_sdei_cancel(v, num) ==
  LET vs == vsdei[v]
      k == kvm_sdei_find_kvm_event(kvm_events, num)
      same == [ret |-> "Ok", kvm_events |-> kvm_events, vs |-> vs, req |-> requests[v]]
  IN
  IF ~kvm_sdei_is_valid_event_num(num) \/ k = 0
  THEN [same EXCEPT !.ret = "NotRegistered"]
  ELSE IF vs.critical_event = num \/ vs.normal_event = num
  THEN [same EXCEPT !.ret = "Busy"]
  ELSE [same EXCEPT
          !.kvm_events[k].refcount =
             @ - QueuedOn(vs.critical_events, num) - QueuedOn(vs.normal_events, num),
          !.vs = [vs EXCEPT !.critical_events = DropVcpuEvent(@, num),
                            !.normal_events = DropVcpuEvent(@, num)]]

\* ------------------------------- asynchronous page fault, notifications

\* work->wakeup_all: the work item kvm_async_pf_wakeup_all queues, whose
\* token kvm_arch_async_page_present sets to ~0.
WakeupAll == -1

\* kvm_arch_async_not_present_allowed: the guest has enabled the
\* notifications, no SDEI event is running on the VCPU and the guest has
\* acknowledged the previous notification.
kvm_arch_async_not_present_allowed(v) ==
  /\ apf[v].enabled
  /\ vsdei[v].critical_event = 0 /\ vsdei[v].normal_event = 0
  /\ apf[v].reason = 0 /\ apf[v].token = 0

\* kvm_arch_async_page_not_present for the work item with token tok, whose
\* page is tok \div 4096 + 1: the control block and shared words it
\* leaves, what kvm_sdei_inject(vcpu, apf->sdei_event_num, true) leaves and
\* what it returns.  wr tells which write_cache fails: none ("ok"), that
\* of the token or that of the reason; the writes of the fail path, whose
\* results the code does not look at, succeed.
kvm_arch_async_page_not_present(v, tok, wr) ==
  LET gfn == tok \div 4096 + 1
      added == [apf[v] EXCEPT !.gfns = kvm_async_pf_add_slot(@, gfn).gfns]
      sdei == kvm_sdei_inject(v, sdei_event_num, TRUE)
  IN IF wr # "ok"
     THEN [apf |-> [added EXCEPT !.token = 0,
                                 !.reason = 0,
                                 !.gfns = kvm_async_pf_remove_slot(@, gfn).gfns],
           sdei |-> [sdei EXCEPT !.kvm_events = kvm_events, !.vs = vsdei[v],
                                 !.req = requests[v]],
           ret |-> FALSE]
     ELSE [apf |-> [added EXCEPT !.token = tok,
                                 !.reason = KVM_PV_REASON_PAGE_NOT_PRESENT,
                                 !.notpresent_pending = TRUE,
                                 !.notpresent_token = tok],
           sdei |-> sdei,
           ret |-> sdei.ret = "Ok"]

\* kvm_arch_can_dequeue_async_page_present, on the control block a.
kvm_arch_can_dequeue_async_page_present(a) ==
  IF ~a.enabled THEN TRUE
  ELSE IF a.pageready_pending THEN FALSE
  ELSE IF a.notpresent_pending /\ a.done = << >> THEN FALSE
  ELSE IF /\ a.notpresent_pending
          /\ a.reason = KVM_PV_REASON_PAGE_NOT_PRESENT
          /\ a.done[1] = a.notpresent_token
          /\ a.token = a.notpresent_token
  THEN TRUE
  ELSE a.reason = 0 /\ a.token = 0

\* A page-present notification that never cancels the page-not-present
\* event.
PagePresentNeverCancels(v, a, work) ==
  [apf |-> [a EXCEPT !.token = work,
                     !.reason = KVM_PV_REASON_PAGE_READY,
                     !.pageready_pending = TRUE,
                     !.irqs = @ + 1,
                     !.gfns = IF work = WakeupAll THEN @
                              ELSE kvm_async_pf_remove_slot(
                                     @, work \div 4096 + 1).gfns],
   cancelled |-> FALSE]

\* kvm_arch_async_page_present for the work item with token work, on the
\* control block a: the control block it leaves and whether it has
\* cancelled the SDEI event.
kvm_arch_async_page_present(v, a, work) ==
  LET gfns == IF work = WakeupAll THEN a.gfns
              ELSE kvm_async_pf_remove_slot(a.gfns, work \div 4096 + 1).gfns
  IN
  IF /\ work # WakeupAll
     /\ a.notpresent_pending
     /\ a.notpresent_token = work
     /\ kvm_sdei_cancel(v, sdei_event_num).ret = "Ok"
  THEN [apf |-> [a EXCEPT !.notpresent_pending = FALSE,
                          !.notpresent_token = 0,
                          !.reason = 0,
                          !.token = 0,
                          !.gfns = gfns],
        cancelled |-> TRUE]
  ELSE [apf |-> [a EXCEPT !.token = work,
                          !.reason = KVM_PV_REASON_PAGE_READY,
                          !.pageready_pending = TRUE,
                          !.irqs = @ + 1,
                          !.gfns = gfns],
        cancelled |-> FALSE]

RECURSIVE kvm_check_async_pf_completion(_, _)
\* kvm_check_async_pf_completion: the loop over the work items done, from
\* the state st (control block, whether the SDEI event has been cancelled).
kvm_check_async_pf_completion(v, st) ==
  IF st.apf.done # << >> /\ kvm_arch_can_dequeue_async_page_present(st.apf)
  THEN LET o == kvm_arch_async_page_present(
                  v, [st.apf EXCEPT !.done = Tail(@)], Head(st.apf.done))
       IN kvm_check_async_pf_completion(
            v, [apf |-> o.apf, cancelled |-> st.cancelled \/ o.cancelled])
  ELSE st

\* ------------------------------------------------------- management plane

\* A registration that keeps the notifier an event has.
RegisterNotifierKeepsFirst(num, notifier) ==
  LET e == kvm_sdei_find_event(num)
  IN IF arch_sdei.kvm # "set" THEN [ret |-> "EPERM", events |-> events]
     ELSE IF e = 0 THEN [ret |-> "EINVAL", events |-> events]
     ELSE [ret |-> "0",
           events |-> IF events[e].notifier # 0 THEN events
                      ELSE [events EXCEPT ![e].notifier = notifier]]

\* kvm_sdei_register_notifier(kvm, num, notifier): the event list it leaves
\* and its return value (0 or an errno name).
kvm_sdei_register_notifier(num, notifier) ==
  LET e == kvm_sdei_find_event(num)
  IN IF arch_sdei.kvm # "set" THEN [ret |-> "EPERM", events |-> events]
     ELSE IF e = 0 THEN [ret |-> "EINVAL", events |-> events]
     ELSE [ret |-> "0", events |-> [events EXCEPT ![e].notifier = notifier]]

\* kvm_sdei_get_kevent_count, under KVM_SDEI_CMD_GET_KEVENT_COUNT: the
\* count it stores.
kvm_sdei_get_kevent_count == Len(kvm_events)

\* A fetch that hands back the record of the number passed.
GetKeventReturnsSame(num) ==
  LET k == kvm_sdei_find_kvm_event(kvm_events, num)
  IN IF ~kvm_sdei_is_valid_event_num(num)
     THEN IF kvm_events = << >> THEN [ret |-> "ENOENT", state |-> ZeroKske]
          ELSE [ret |-> "0", state |-> kvm_events[1]]
     ELSE IF k # 0
     THEN [ret |-> "0", state |-> kvm_events[k]]
     ELSE [ret |-> "ENOENT", state |-> ZeroKske]

\* kvm_sdei_get_kevent, under KVM_SDEI_CMD_GET_KEVENT, called with num in
\* kske_state->num: its return value (0 or an errno name) and the state it
\* stores (none, held as ZeroKske, when it fails).
kvm_sdei_get_kevent(num) ==
  LET k == kvm_sdei_find_kvm_event(kvm_events, num)
  IN IF ~kvm_sdei_is_valid_event_num(num)
     THEN IF kvm_events = << >> THEN [ret |-> "ENOENT", state |-> ZeroKske]
          ELSE [ret |-> "0", state |-> kvm_events[1]]
     ELSE IF k # 0 /\ k # Len(kvm_events)
     THEN [ret |-> "0", state |-> kvm_events[k + 1]]
     ELSE [ret |-> "ENOENT", state |-> ZeroKske]

\* A definition that never looks for the number among the events exposed.
SetEventAllowsDuplicate(kse_state, alloc_ok) ==
  IF ~kvm_sdei_is_valid_event_num(kse_state.num)
  THEN [ret |-> "EINVAL", events |-> events]
  ELSE IF ~alloc_ok
  THEN [ret |-> "ENOMEM", events |-> events]
  ELSE [ret |-> "0", events |-> Append(events, kse_state)]

\* kvm_sdei_set_event, under KVM_SDEI_CMD_SET_EVENT of kvm_sdei_vm_ioctl:
\* the event list it leaves and its return value (0 or an errno name).
kvm_sdei_set_event(kse_state, alloc_ok) ==
  IF ~kvm_sdei_is_valid_event_num(kse_state.num)
  THEN [ret |-> "EINVAL", events |-> events]
  ELSE IF ~(kse_state.type = SDEI_EVENT_TYPE_SHARED \/ kse_state.type = SDEI_EVENT_TYPE_PRIVATE)
  THEN [ret |-> "EINVAL", events |-> events]
  ELSE IF ~(\/ kse_state.priority = SDEI_EVENT_PRIORITY_NORMAL
            \/ kse_state.priority = SDEI_EVENT_PRIORITY_CRITICAL)
  THEN [ret |-> "EINVAL", events |-> events]
  ELSE IF kvm_sdei_find_event(kse_state.num) # 0
  THEN [ret |-> "EEXIST", events |-> events]
  ELSE IF ~alloc_ok
  THEN [ret |-> "ENOMEM", events |-> events]
  ELSE [ret |-> "0", events |-> Append(events, kse_state)]

\* ------------------------------------------------------------------ inputs

\* The event number the management plane defines besides the default one.
SharedNum == KVM_SDEI_DEFAULT_NUM + 2

\* What KVM_SDEI_CMD_SET_EVENT is called with: a shared event of normal
\* priority (the default event is private and critical).
DefinableEvents ==
  { [num |-> SharedNum, type |-> SDEI_EVENT_TYPE_SHARED, signaled |-> 1,
     priority |-> SDEI_EVENT_PRIORITY_NORMAL, notifier |-> 0] }

EventNums == {KVM_SDEI_DEFAULT_NUM, SharedNum}

\* The handler entry point and argument VCPU v registers with.
EntryOf(v) == 4096 * (v + 1)
ParamOf(v) == 256 + v

\* Where a handler on VCPU v asks to be resumed (EVENT_COMPLETE_AND_RESUME).
ResumeOf(v) == 640 + v

\* The context the guest is in when it traps: the SMCCC argument registers
\* x0..x5 cleared before the call's arguments are loaded, values in x6..x17,
\* PC and PSTATE (AArch32 user mode with the C flag set, nothing masked).
GuestContext ==
  [regs |-> [i \in 0..(NR_REGS - 1) |-> IF i < 6 THEN 0 ELSE i + 1],
   pc |-> 12288,
   pstate |-> 536870912 + PSR_MODE32_BIT]

\* The guest has run since the last exit: registers, PC and PSTATE are g's.
GuestAt(c, g) == [c EXCEPT !.regs = g.regs, !.pc = g.pc, !.pstate = g.pstate]

\* The guest's registers x0.. as it issues a hypercall: the function
\* identifier and the arguments; the other registers keep their values.
LoadArgs(c, args) ==
  [c EXCEPT !.regs = [i \in 0..(NR_REGS - 1) |->
                        IF i < Len(args) THEN args[i + 1] ELSE @[i]]]

RegisterCall(v, n) ==
  <<SDEI_1_0_FN_SDEI_EVENT_REGISTER, n, EntryOf(v), ParamOf(v),
    SDEI_EVENT_REGISTER_RM_ANY, 0>>

\* The hypercalls VCPU v issues in the registration specification.
RegistrationCalls(v) ==
  { RegisterCall(v, n) : n \in EventNums }
  \cup { <<f, n>> : f \in {SDEI_1_0_FN_SDEI_EVENT_ENABLE,
                           SDEI_1_0_FN_SDEI_EVENT_DISABLE,
                           SDEI_1_0_FN_SDEI_EVENT_UNREGISTER},
                    n \in EventNums }
  \cup { <<SDEI_1_0_FN_SDEI_PRIVATE_RESET>>, <<SDEI_1_0_FN_SDEI_SHARED_RESET>> }

\* The hypercalls VCPU v issues in the delivery specification.
DeliveryCalls(v) ==
  { RegisterCall(v, n) : n \in EventNums }
  \cup { <<SDEI_1_0_FN_SDEI_EVENT_ENABLE, n>> : n \in EventNums }
  \cup { <<SDEI_1_0_FN_SDEI_PE_MASK>>, <<SDEI_1_0_FN_SDEI_PE_UNMASK>>,
         <<SDEI_1_0_FN_SDEI_EVENT_COMPLETE>> }

\* The hypercalls VCPU v issues in the lifecycle specification, all of them
\* about the default event.
LifecycleCalls(v) ==
  { RegisterCall(v, KVM_SDEI_DEFAULT_NUM),
    <<SDEI_1_0_FN_SDEI_EVENT_ENABLE, KVM_SDEI_DEFAULT_NUM>>,
    <<SDEI_1_0_FN_SDEI_EVENT_UNREGISTER, KVM_SDEI_DEFAULT_NUM>>,
    <<SDEI_1_0_FN_SDEI_PE_MASK>>,
    <<SDEI_1_0_FN_SDEI_PE_UNMASK>>,
    <<SDEI_1_0_FN_SDEI_EVENT_COMPLETE>>,
    <<SDEI_1_0_FN_SDEI_EVENT_COMPLETE_AND_RESUME, ResumeOf(v)>> }

\* The register indexes SDEI_EVENT_CONTEXT is asked for: the first, one
\* delivery rewrites, the last, one past the last, two past it, and
\* 0xFFFFFFFFFFFFFFFF.
ContextIndexes == {0, 2, NR_REGS - 1, NR_REGS, NR_REGS + 1, -1}

\* The hypercalls VCPU v issues in the query specification: it registers and
\* enables the default event, and asks for the status of both event numbers
\* and for the interrupted context.
QueryCalls(v) ==
  { RegisterCall(v, KVM_SDEI_DEFAULT_NUM),
    <<SDEI_1_0_FN_SDEI_EVENT_ENABLE, KVM_SDEI_DEFAULT_NUM>>,
    <<SDEI_1_0_FN_SDEI_EVENT_COMPLETE>> }
  \cup { <<SDEI_1_0_FN_SDEI_EVENT_STATUS, n>> : n \in EventNums }
  \cup { <<SDEI_1_0_FN_SDEI_EVENT_CONTEXT, i>> : i \in ContextIndexes }

\* Event numbers that are not well formed: one of a physical event (bits
\* [23:22] are 00) and 0xFFFFFFFFC0400000 (bits [23:22] are 01, bits 63..32
\* are set).
PhysNum == KVM_SDEI_DEFAULT_NUM - 2 ^ KVM_SDEI_EV_NUM_TYPE_SHIFT
HighNum == KVM_SDEI_DEFAULT_NUM - 2 ^ 30 - 2 ^ 30
\* A well-formed event number no event is defined with.
UndefinedNum == KVM_SDEI_DEFAULT_NUM + 1

\* The event numbers the validation specification passes.
ValidateNums == EventNums \cup {PhysNum, HighNum, UndefinedNum}

\* The route modes SDEI_EVENT_ROUTING_SET is called with: RM_ANY, RM_PE and
\* one that is neither.
RouteModes ==
  {SDEI_EVENT_REGISTER_RM_ANY, SDEI_EVENT_REGISTER_RM_PE,
   SDEI_EVENT_REGISTER_RM_PE + 1}

\* A second registration by VCPU v, with another entry point, argument,
\* route mode and affinity than RegisterCall's.
ReRegisterCall(v, n) ==
  <<SDEI_1_0_FN_SDEI_EVENT_REGISTER, n, EntryOf(v) + 8, ParamOf(v) + 8,
    SDEI_EVENT_REGISTER_RM_PE, v + 1>>

\* The hypercalls VCPU v issues in the validation specification.
ValidateCalls(v) ==
  { RegisterCall(v, n) : n \in EventNums }
  \cup { ReRegisterCall(v, n) : n \in EventNums }
  \cup { <<f, n>> : f \in {SDEI_1_0_FN_SDEI_EVENT_ENABLE,
                           SDEI_1_0_FN_SDEI_EVENT_DISABLE,
                           SDEI_1_0_FN_SDEI_EVENT_UNREGISTER},
                    n \in ValidateNums }
  \cup { <<SDEI_1_0_FN_SDEI_EVENT_ROUTING_SET, n, m, v>> :
           n \in ValidateNums, m \in RouteModes }

\* The hypercalls VCPU v issues in the consistency specification.
ConsistencyCalls(v) ==
  { RegisterCall(v, n) : n \in EventNums }
  \cup { <<f, n>> : f \in {SDEI_1_0_FN_SDEI_EVENT_ENABLE,
                           SDEI_1_0_FN_SDEI_EVENT_UNREGISTER},
                    n \in EventNums }
  \cup { <<SDEI_1_0_FN_SDEI_PRIVATE_RESET>>, <<SDEI_1_0_FN_SDEI_SHARED_RESET>>,
         <<SDEI_1_0_FN_SDEI_EVENT_COMPLETE>> }

\* What SDEI_EVENT_GET_INFO is asked for: the five kinds of information
\* and one that is none of them.
InfoKinds ==
  {SDEI_EVENT_INFO_EV_TYPE, SDEI_EVENT_INFO_EV_SIGNALED,
   SDEI_EVENT_INFO_EV_PRIORITY, SDEI_EVENT_INFO_EV_ROUTING_MODE,
   SDEI_EVENT_INFO_EV_ROUTING_AFF, SDEI_EVENT_INFO_EV_ROUTING_AFF + 1}

\* The hypercalls VCPU v issues in the routing specification.
RouteCalls(v) ==
  { RegisterCall(v, n) : n \in EventNums }
  \cup { ReRegisterCall(v, n) : n \in EventNums }
  \cup { <<SDEI_1_0_FN_SDEI_EVENT_UNREGISTER, n>> : n \in EventNums }
  \cup { <<SDEI_1_0_FN_SDEI_EVENT_ROUTING_SET, n, m, v + 2>> :
           n \in EventNums, m \in RouteModes }
  \cup { <<SDEI_1_0_FN_SDEI_EVENT_GET_INFO, n, i>> :
           n \in EventNums \cup {UndefinedNum}, i \in InfoKinds }

\* The hypercalls VCPU v issues in the page-fault specification.
ApfCalls(v) ==
  { RegisterCall(v, sdei_event_num),
    <<SDEI_1_0_FN_SDEI_EVENT_ENABLE, sdei_event_num>>,
    <<SDEI_1_0_FN_SDEI_PE_UNMASK>>,
    <<SDEI_1_0_FN_SDEI_EVENT_COMPLETE>> }

\* The hypercalls VCPU v issues in the creation specification.
CreateCalls(v) ==
  { <<SDEI_1_0_FN_SDEI_VERSION>>,
    RegisterCall(v, KVM_SDEI_DEFAULT_NUM),
    <<SDEI_1_0_FN_SDEI_EVENT_ENABLE, KVM_SDEI_DEFAULT_NUM>>,
    <<SDEI_1_0_FN_SDEI_EVENT_UNREGISTER, KVM_SDEI_DEFAULT_NUM>>,
    <<SDEI_1_0_FN_SDEI_PE_UNMASK>>,
    <<SDEI_1_0_FN_SDEI_EVENT_COMPLETE>> }

\* The functions registered as notifiers: that of the asynchronous page
\* fault and another subsystem's.
Notifiers == {AsyncNotifier, AsyncNotifier + 1}

\* What else KVM_SDEI_CMD_SET_EVENT is called with in the routing
\* specification: events of either type and priority under the number of a
\* physical event, a number above 32 bits, the default event's number and a
\* number no event has.
DefineInputs ==
  { [num |-> n, type |-> t, signaled |-> 1, priority |-> p, notifier |-> 0] :
      n \in {PhysNum, HighNum, KVM_SDEI_DEFAULT_NUM, SharedNum + 1},
      t \in {SDEI_EVENT_TYPE_PRIVATE, SDEI_EVENT_TYPE_SHARED},
      p \in {SDEI_EVENT_PRIORITY_NORMAL, SDEI_EVENT_PRIORITY_CRITICAL} }

\* Only kvm_sdei_hypercall_register allocates.
AllocOutcomes(args) ==
  IF args[1] = SDEI_1_0_FN_SDEI_EVENT_REGISTER THEN BOOLEAN ELSE {TRUE}

\* The VCPU that takes events in the delivery specifications: its index
\* differs from the index shared events are kept under.
DeliveryVcpus == {1}

\* ------------------------------------------------------------ the selftest
\* tools/testing/selftests/kvm/aarch64/sdei.c: main sends the commands of
\* vcpu_commands one by one to the guests of all VCPUs, waits until all have
\* completed the command and compares their states.

VCPU_COMMAND_IDLE == 0

\* The event the guests are given: the private event the VM defines.
SDEI_TEST_EVENT_NUM == KVM_SDEI_DEFAULT_NUM

\* vcpu_commands[], the commands this dispatcher implements.
vcpu_commands ==
  << SDEI_1_0_FN_SDEI_VERSION,
     SDEI_1_0_FN_SDEI_SHARED_RESET,
     SDEI_1_0_FN_SDEI_PRIVATE_RESET,
     SDEI_1_0_FN_SDEI_PE_UNMASK,
     SDEI_1_0_FN_SDEI_EVENT_GET_INFO,
     SDEI_1_0_FN_SDEI_EVENT_REGISTER,
     SDEI_1_0_FN_SDEI_EVENT_ENABLE,
     SDEI_1_0_FN_SDEI_PE_MASK,
     SDEI_1_0_FN_SDEI_EVENT_DISABLE,
     SDEI_1_0_FN_SDEI_EVENT_UNREGISTER >>

is_error(status) ==
  status \in {SDEI_NOT_SUPPORTED, SDEI_INVALID_PARAMETERS, SDEI_DENIED,
              SDEI_PENDING, SDEI_OUT_OF_RESOURCE}

\* struct sdei_state as vcpu_send_command leaves it (calls counts the
\* hypercalls guest_code has issued for the command).
SentState ==
  [status |-> SDEI_SUCCESS, version |-> 0,
   info |-> [type |-> 0, priority |-> 0, signaled |-> 0],
   calls |-> 0, command_completed |-> FALSE]

\* guest_code: the hypercalls it issues for a command, in order.
GuestCalls(v, command) ==
  CASE command = SDEI_1_0_FN_SDEI_EVENT_GET_INFO ->
         << <<command, SDEI_TEST_EVENT_NUM, SDEI_EVENT_INFO_EV_TYPE>>,
            <<command, SDEI_TEST_EVENT_NUM, SDEI_EVENT_INFO_EV_PRIORITY>>,
            <<command, SDEI_TEST_EVENT_NUM, SDEI_EVENT_INFO_EV_SIGNALED>> >>
    [] command = SDEI_1_0_FN_SDEI_EVENT_REGISTER ->
         << <<command, SDEI_TEST_EVENT_NUM, EntryOf(0), ParamOf(v),
              SDEI_EVENT_REGISTER_RM_ANY>> >>
    [] command \in {SDEI_1_0_FN_SDEI_EVENT_ENABLE,
                    SDEI_1_0_FN_SDEI_EVENT_DISABLE,
                    SDEI_1_0_FN_SDEI_EVENT_UNREGISTER} ->
         << <<command, SDEI_TEST_EVENT_NUM>> >>
    [] OTHER -> << <<command, 0>> >>

\* guest_code: the state after the hypercall numbered call of a command has
\* returned a0.
GuestResult(st, command, call, a0) ==
  LET last == call = Len(GuestCalls(0, command)) \/ is_error(a0)
      t == [st EXCEPT !.calls = call, !.command_completed = last]
  IN CASE command = SDEI_1_0_FN_SDEI_VERSION ->
            [t EXCEPT !.status = a0,
                      !.version = IF is_error(a0) THEN @ ELSE a0]
       [] command = SDEI_1_0_FN_SDEI_EVENT_GET_INFO /\ call = 1 ->
            [t EXCEPT !.status = a0,
                      !.info.type = IF is_error(a0) THEN @ ELSE a0]
       [] command = SDEI_1_0_FN_SDEI_EVENT_GET_INFO /\ call = 2 ->
            [t EXCEPT !.status = a0,
                      !.info.priority = IF is_error(a0) THEN @ ELSE a0]
       [] command = SDEI_1_0_FN_SDEI_EVENT_GET_INFO /\ call = 3 ->
            [t EXCEPT !.info.signaled = IF is_error(a0) THEN @ ELSE a0]
       [] OTHER -> [t EXCEPT !.status = a0]

\* vcpu_wait: every guest has completed the command.
vcpu_wait == \A v \in Vcpus : selftest.state[v].command_completed

\* vcpu_check_state: no guest reports an error and all states are equal.
vcpu_check_state ==
  \A i \in Vcpus :
    /\ ~is_error(selftest.state[i].status)
    /\ \A j \in Vcpus : selftest.state[i] = selftest.state[j]

\* ----------------------------------------------------------------- actions

Init ==
  /\ events = kvm_sdei_init_vm.events
  /\ kvm_events = kvm_sdei_init_vm.kvm_events
  /\ vsdei = [v \in Vcpus |-> kvm_sdei_create_vcpu]
  /\ vcpu_regs = [v \in Vcpus |-> ResetContext]
  /\ requests = [v \in Vcpus |-> FALSE]
  /\ oops = FALSE
  /\ notified = [v \in Vcpus |->
                   [critical |-> << >>, normal |-> << >>, last |-> << >>]]
  /\ apf = [v \in Vcpus |-> kvm_arch_async_pf_create_vcpu]
  /\ arch_sdei = [kvm |-> "set", vcpu |-> [v \in Vcpus |-> "set"]]
  /\ selftest = [command |-> VCPU_COMMAND_IDLE,
                 state |-> [v \in Vcpus |->
                              [SentState EXCEPT !.command_completed = TRUE]]]
  /\ completing = [v \in Vcpus |-> << >>]
  /\ locks = [t \in Threads |-> [fn |-> "", todo |-> << >>, held |-> << >>]]

\* The guest on VCPU v, running in context g, traps with a hypercall.
Hvc(v, g, args, alloc_ok) ==
  /\ ~oops
  /\ arch_sdei.vcpu[v] # "none"
  /\ kvm_sdei_hypercall(v, LoadArgs(GuestAt(vcpu_regs[v], g), args), alloc_ok)
  /\ UNCHANGED selftest

\* Another subsystem injects event num into VCPU v.
Inject(v, num, immediate) ==
  LET o == kvm_sdei_inject(v, num, immediate)
      k == kvm_sdei_find_kvm_event(kvm_events, num)
  IN /\ ~oops
     /\ o.ret = "Ok" => kvm_events[k].refcount < MaxInject
     /\ kvm_events' = o.kvm_events
     /\ vsdei' = [vsdei EXCEPT ![v] = o.vs]
     /\ requests' = [requests EXCEPT ![v] = o.req]
     /\ UNCHANGED <<locks, arch_sdei, selftest, completing, events, vcpu_regs, oops, notified, apf>>

\* Another subsystem cancels event num on VCPU v.
Cancel(v, num) ==
  LET o == kvm_sdei_cancel(v, num)
  IN /\ ~oops
     /\ kvm_events' = o.kvm_events
     /\ vsdei' = [vsdei EXCEPT ![v] = o.vs]
     /\ requests' = [requests EXCEPT ![v] = o.req]
     /\ UNCHANGED <<locks, arch_sdei, selftest, completing, events, vcpu_regs, oops, notified, apf>>

\* kvm_sdei_deliver called on VCPU v.
Deliver(v) ==
  LET o == kvm_sdei_deliver(v)
  IN /\ ~oops
     /\ vsdei' = [vsdei EXCEPT ![v] = o.vs]
     /\ vcpu_regs' = [vcpu_regs EXCEPT ![v] = o.ctxt]
     /\ notified' = [notified EXCEPT ![v] = o.notified]
     /\ apf' = [apf EXCEPT ![v] = o.apf]
     /\ UNCHANGED <<locks, arch_sdei, selftest, completing, events, kvm_events, requests, oops>>

\* The run loop of VCPU v consumes KVM_REQ_SDEI before entering the guest.
VcpuEnter(v) ==
  LET o == kvm_sdei_deliver(v)
  IN /\ ~oops
     /\ requests[v]
     /\ requests' = [requests EXCEPT ![v] = FALSE]
     /\ vsdei' = [vsdei EXCEPT ![v] = o.vs]
     /\ vcpu_regs' = [vcpu_regs EXCEPT ![v] = o.ctxt]
     /\ notified' = [notified EXCEPT ![v] = o.notified]
     /\ apf' = [apf EXCEPT ![v] = o.apf]
     /\ UNCHANGED <<locks, arch_sdei, selftest, completing, events, kvm_events, oops>>

\* KVM_SDEI_CMD_SET_EVENT of kvm_sdei_vm_ioctl.
SetEvent(kse_state, alloc_ok) ==
  /\ ~oops
  /\ arch_sdei.kvm = "set"
  /\ Len(events) <= MaxDefined
  /\ events' = kvm_sdei_set_event(kse_state, alloc_ok).events
  /\ UNCHANGED <<locks, arch_sdei, selftest, completing, kvm_events, vsdei, vcpu_regs, requests, oops, notified, apf>>

\* Another subsystem calls kvm_sdei_register_notifier(kvm, num, notifier).
RegisterNotifier(num, notifier) ==
  LET o == kvm_sdei_register_notifier(num, notifier)
  IN /\ ~oops
     /\ events' = o.events
     /\ UNCHANGED <<locks, arch_sdei, selftest, completing, kvm_events, vsdei, vcpu_regs, requests, oops, notified, apf>>

\* kvm_arch_async_enable(vcpu, data) with KVM_ASYNC_PF_ENABLED set in data:
\* the notifier is registered for the SDEI event and a wake-up-all work
\* item is queued as done.
AsyncEnable(v) ==
  LET e == kvm_sdei_find_event(sdei_event_num)
  IN /\ ~oops
     /\ ~apf[v].enabled
     /\ e # 0
     /\ events' = kvm_sdei_register_notifier(sdei_event_num, AsyncNotifier).events
     /\ apf' = [apf EXCEPT ![v].enabled = TRUE,
                           ![v].done = IF @ = << >> THEN <<WakeupAll>> ELSE @]
     /\ UNCHANGED <<locks, arch_sdei, selftest, completing, kvm_events, vsdei, vcpu_regs, requests, oops, notified>>

\* kvm_setup_async_pf, called for a page that is not present when
\* kvm_arch_async_not_present_allowed: the work item is queued and the
\* page-not-present notification is injected.
SetupAsyncPf(v, wr) ==
  LET tok == apf[v].id * 4096 + v
      o == kvm_arch_async_page_not_present(v, tok, wr)
  IN /\ ~oops
     /\ kvm_arch_async_not_present_allowed(v)
     /\ apf[v].id < MaxFaults
     /\ apf' = [apf EXCEPT ![v] = [o.apf EXCEPT !.id = @ + 1,
                                                !.queue = @ \cup {tok}]]
     /\ kvm_events' = o.sdei.kvm_events
     /\ vsdei' = [vsdei EXCEPT ![v] = o.sdei.vs]
     /\ requests' = [requests EXCEPT ![v] = o.sdei.req]
     /\ UNCHANGED <<locks, arch_sdei, selftest, completing, events, vcpu_regs, oops, notified>>

\* async_pf_execute: the page of a work item has been brought in.
AsyncPfExecute(v, tok) ==
  /\ ~oops
  /\ tok \in apf[v].queue
  /\ apf' = [apf EXCEPT ![v].queue = @ \ {tok}, ![v].done = Append(@, tok)]
  /\ UNCHANGED <<locks, arch_sdei, selftest, completing, events, kvm_events, vsdei, vcpu_regs, requests, oops, notified>>

\* kvm_check_async_pf_completion, called by the run loop of VCPU v (ack
\* FALSE) or by ARM_SMCCC_KVM_FUNC_ASYNC_PF_IRQ_ACK after it has cleared
\* pageready_pending (ack TRUE).
CheckCompletion(v, ack) ==
  LET a == IF ack THEN [apf[v] EXCEPT !.pageready_pending = FALSE] ELSE apf[v]
      st == kvm_check_async_pf_completion(v, [apf |-> a, cancelled |-> FALSE])
      c == kvm_sdei_cancel(v, sdei_event_num)
  IN /\ ~oops
     /\ ack => apf[v].pageready_pending
     /\ apf' = [apf EXCEPT ![v] = st.apf]
     /\ kvm_events' = IF st.cancelled THEN c.kvm_events ELSE kvm_events
     /\ vsdei' = IF st.cancelled THEN [vsdei EXCEPT ![v] = c.vs] ELSE vsdei
     /\ UNCHANGED <<locks, arch_sdei, selftest, completing, events, vcpu_regs, requests, oops, notified>>

\* The guest acknowledges a notification: it has read the reason and token
\* words, in the SDEI handler or in the handler of the page-ready
\* interrupt, and clears them.
GuestAcknowledge(v) ==
  /\ ~oops
  /\ \/ /\ apf[v].reason = KVM_PV_REASON_PAGE_NOT_PRESENT
        /\ sdei_event_num \in {vsdei[v].critical_event, vsdei[v].normal_event}
     \/ /\ apf[v].reason = KVM_PV_REASON_PAGE_READY
        /\ apf[v].pageready_pending
  /\ apf' = [apf EXCEPT ![v].reason = 0, ![v].token = 0]
  /\ UNCHANGED <<locks, arch_sdei, selftest, completing, events, kvm_events, vsdei, vcpu_regs, requests, oops, notified>>

\* Registration specification: every VCPU registers, enables, disables,
\* unregisters and resets, while events are injected.

\* main: the command before is completed and checked, the next command of
\* vcpu_commands is sent to all guests (vcpu_send_command).
SendCommand ==
  /\ ~oops
  /\ vcpu_wait
  /\ vcpu_check_state
  /\ selftest.command < Len(vcpu_commands)
  /\ selftest' = [command |-> selftest.command + 1,
                  state |-> [v \in Vcpus |-> SentState]]
  /\ UNCHANGED <<events, kvm_events, vsdei, vcpu_regs, requests, oops,
                 notified, apf, arch_sdei, completing, locks>>

\* guest_code on VCPU v issues the next hypercall of the command sent and
\* stores what it returns.
GuestCommand(v) ==
  LET st == selftest.state[v]
      command == vcpu_commands[selftest.command]
      call == st.calls + 1
  IN /\ ~oops
     /\ selftest.command # VCPU_COMMAND_IDLE
     /\ ~st.command_completed
     /\ kvm_sdei_hypercall(
          v, LoadArgs(GuestAt(vcpu_regs[v], GuestContext),
                      GuestCalls(v, command)[call]), TRUE)
     /\ selftest' = [selftest EXCEPT !["state"][v] =
          GuestResult(st, command, call, vcpu_regs'[v].regs[0])]

\* A VM is being created: nothing of it exists yet.
InitCreate ==
  /\ events = << >>
  /\ kvm_events = << >>
  /\ vsdei = [v \in Vcpus |-> kvm_sdei_create_vcpu]
  /\ vcpu_regs = [v \in Vcpus |-> ResetContext]
  /\ requests = [v \in Vcpus |-> FALSE]
  /\ oops = FALSE
  /\ notified = [v \in Vcpus |->
                   [critical |-> << >>, normal |-> << >>, last |-> << >>]]
  /\ apf = [v \in Vcpus |-> kvm_arch_async_pf_create_vcpu]
  /\ arch_sdei = [kvm |-> "none", vcpu |-> [v \in Vcpus |-> "none"]]
  /\ selftest = [command |-> VCPU_COMMAND_IDLE,
                 state |-> [v \in Vcpus |->
                              [SentState EXCEPT !.command_completed = TRUE]]]
  /\ completing = [v \in Vcpus |-> << >>]
  /\ locks = [t \in Threads |-> [fn |-> "", todo |-> << >>, held |-> << >>]]

\* kvm_sdei_init_vm(kvm), void, called while the VM is created; ksdei_ok and
\* kse_ok are whether the kzalloc of ksdei and of the default event
\* succeed.  When the latter fails kvm_sdei_remove_events(kvm) walks
\* &kvm->arch.sdei->events while kvm->arch.sdei is still NULL: the host
\* faults, or the walk ends and the function returns.
InitVm(ksdei_ok, kse_ok) ==
  /\ ~oops
  /\ arch_sdei.kvm = "none"
  /\ IF ~ksdei_ok
     THEN /\ arch_sdei' = [arch_sdei EXCEPT !.kvm = "null"]
          /\ UNCHANGED <<events, oops>>
     ELSE IF ~kse_ok
     THEN \E ub \in {"fault", "none"} :
            /\ oops' = (ub = "fault")
            /\ arch_sdei' = [arch_sdei EXCEPT
                               !.kvm = IF ub = "fault" THEN @ ELSE "null"]
            /\ UNCHANGED events
     ELSE /\ events' = kvm_sdei_init_vm.events
          /\ arch_sdei' = [arch_sdei EXCEPT !.kvm = "set"]
          /\ UNCHANGED oops
  /\ UNCHANGED <<kvm_events, vsdei, vcpu_regs, requests, notified, apf, selftest,
                 completing, locks>>

\* kvm_sdei_create_vcpu(vcpu), void, called while a VCPU of the VM is
\* created; alloc_ok is whether the kzalloc of vsdei succeeds.
CreateVcpu(v, alloc_ok) ==
  /\ ~oops
  /\ arch_sdei.kvm # "none"
  /\ arch_sdei.vcpu[v] = "none"
  /\ IF arch_sdei.kvm = "null" \/ ~alloc_ok
     THEN /\ arch_sdei' = [arch_sdei EXCEPT !.vcpu[v] = "null"]
          /\ UNCHANGED vsdei
     ELSE /\ vsdei' = [vsdei EXCEPT ![v] = kvm_sdei_create_vcpu]
          /\ arch_sdei' = [arch_sdei EXCEPT !.vcpu[v] = "set"]
  /\ UNCHANGED <<events, kvm_events, vcpu_regs, requests, oops, notified, apf,
                 selftest, completing, locks>>


\* kvm_sdei_hypercall_complete on VCPU v with a lane busy, up to the load
\* of kske->state.refcount in "kske->state.refcount--" (sdei.c:371), a
\* plain read-modify-write of a __u32 made with only vsdei->lock held: the
\* lane is cleared, the context restored, the notifier called and the
\* per-VCPU event put while VCPU v holds its own lock, which nobody else
\* can see before the lock is released.
CompleteLoad(v, resume) ==
  LET c == LoadArgs(GuestAt(vcpu_regs[v], GuestContext),
                    <<SDEI_1_0_FN_SDEI_EVENT_COMPLETE>>)
      o == kvm_sdei_hypercall_complete(v, c, resume)
      num == IF vsdei[v].critical_event # 0
             THEN vsdei[v].critical_event ELSE vsdei[v].normal_event
      k == kvm_sdei_find_kvm_event(kvm_events, num)
  IN /\ ~oops
     /\ completing[v] = << >>
     /\ vsdei[v].critical_event # 0 \/ vsdei[v].normal_event # 0
     /\ completing' = [completing EXCEPT ![v] = <<num, kvm_events[k].refcount>>]
     /\ vsdei' = [vsdei EXCEPT ![v] = o.vs]
     /\ vcpu_regs' = [vcpu_regs EXCEPT ![v] = o.ctxt]
     /\ requests' = [requests EXCEPT ![v] = o.req]
     /\ notified' = [notified EXCEPT ![v] = o.notified]
     /\ UNCHANGED <<locks, arch_sdei, selftest, events, kvm_events, oops, apf>>

\* The store of "kske->state.refcount--": the value loaded, less one.
CompleteStore(v) ==
  LET k == kvm_sdei_find_kvm_event(kvm_events, completing[v][1])
  IN /\ ~oops
     /\ completing[v] # << >>
     /\ kvm_events' = [kvm_events EXCEPT ![k].refcount = U32Dec(completing[v][2])]
     /\ completing' = [completing EXCEPT ![v] = << >>]
     /\ UNCHANGED <<locks, arch_sdei, selftest, events, vsdei, vcpu_regs, requests, oops,
                    notified, apf>>


\* A plan in which the completion takes the VM's lock inside its own.
CompleteTakesVmLock(fn, v) ==
  IF fn = "kvm_sdei_hypercall_complete"
  THEN << <<"vsdei->lock", v>>, <<"ksdei->lock", 0>> >>
  ELSE IF fn \in {"kvm_sdei_inject", "kvm_sdei_cancel"}
  THEN << <<"ksdei->lock", 0>>, <<"vsdei->lock", v>> >>
  ELSE << <<"ksdei->lock", 0>> >>

\* The spinlocks a function takes on behalf of VCPU v, in the order it
\* takes them; it releases them in the reverse order before it returns.
\* The notifier kvm_sdei_hypercall_complete and kvm_sdei_deliver call with
\* vsdei->lock held, kvm_arch_async_sdei_notifier, takes no lock.
\* kvm_sdei_inject and kvm_sdei_cancel take the VM's lock, then the VCPU's.
LockPlan(fn, v) ==
  IF fn \in {"kvm_sdei_hypercall_context", "kvm_sdei_hypercall_complete",
             "kvm_sdei_hypercall_mask", "kvm_sdei_deliver"}
  THEN << <<"vsdei->lock", v>> >>
  ELSE IF fn \in {"kvm_sdei_inject", "kvm_sdei_cancel"}
  THEN << <<"ksdei->lock", 0>>, <<"vsdei->lock", v>> >>
  ELSE << <<"ksdei->lock", 0>> >>

\* The functions the thread of a VCPU enters for its VCPU: the hypercall
\* handlers that take a lock, the delivery of the run loop and the
\* injection kvm_arch_async_page_not_present makes.
VcpuThreadFunctions ==
  {"kvm_sdei_hypercall_register", "kvm_sdei_hypercall_enable",
   "kvm_sdei_hypercall_context", "kvm_sdei_hypercall_complete",
   "kvm_sdei_hypercall_unregister", "kvm_sdei_hypercall_status",
   "kvm_sdei_hypercall_info", "kvm_sdei_hypercall_route",
   "kvm_sdei_hypercall_mask", "kvm_sdei_hypercall_reset",
   "kvm_sdei_deliver", "kvm_sdei_inject"}

\* The functions another thread enters, for any VCPU.
OtherThreadFunctions ==
  {"kvm_sdei_register_notifier", "kvm_sdei_vm_ioctl", "kvm_sdei_inject",
   "kvm_sdei_cancel"}

\* Thread t enters function fn on behalf of VCPU v.
Enter(t, fn, v) ==
  /\ locks[t].fn = ""
  /\ IF t \in Vcpus THEN v = t /\ fn \in VcpuThreadFunctions
                    ELSE fn \in OtherThreadFunctions
  /\ locks' = [locks EXCEPT ![t] = [fn |-> fn, todo |-> LockPlan(fn, v),
                                    held |-> << >>]]
  /\ UNCHANGED <<events, kvm_events, vsdei, vcpu_regs, requests, oops, notified,
                 apf, selftest, arch_sdei, completing>>

\* spin_lock: thread t takes the next lock of its function, which no
\* thread holds.
spin_lock(t) ==
  /\ locks[t].todo # << >>
  /\ \A u \in Threads : \A i \in 1..Len(locks[u].held) :
       locks[u].held[i] # Head(locks[t].todo)
  /\ locks' = [locks EXCEPT ![t].todo = Tail(@),
                            ![t].held = <<Head(locks[t].todo)>> \o @]
  /\ UNCHANGED <<events, kvm_events, vsdei, vcpu_regs, requests, oops, notified,
                 apf, selftest, arch_sdei, completing>>

\* spin_unlock: thread t, all its locks taken, releases the last taken;
\* the function returns with the last release.
spin_unlock(t) ==
  /\ locks[t].todo = << >>
  /\ locks[t].held # << >>
  /\ locks' = [locks EXCEPT ![t].held = Tail(@),
                            ![t].fn = IF Len(locks[t].held) = 1 THEN "" ELSE @]
  /\ UNCHANGED <<events, kvm_events, vsdei, vcpu_regs, requests, oops, notified,
                 apf, selftest, arch_sdei, completing>>


\* kvm_async_pf_add_slot(vcpu, gfn) for a page that is not in the table of
\* VCPU v, which has a slot free; the VCPU thread is stuck when it spins.
AddSlot(v, gfn) ==
  LET o == kvm_async_pf_add_slot(apf[v].gfns, gfn)
  IN /\ ~oops
     /\ ~kvm_async_pf_find_slot(apf[v].gfns, gfn)
     /\ \E i \in DOMAIN apf[v].gfns : apf[v].gfns[i] = EmptySlot
     /\ apf' = [apf EXCEPT ![v].gfns = o.gfns]
     /\ oops' = o.spins
     /\ UNCHANGED <<locks, arch_sdei, selftest, completing, events, kvm_events,
                    vsdei, vcpu_regs, requests, notified>>

\* kvm_async_pf_remove_slot(vcpu, gfn).
RemoveSlot(v, gfn) ==
  LET o == kvm_async_pf_remove_slot(apf[v].gfns, gfn)
  IN /\ ~oops
     /\ apf' = [apf EXCEPT ![v].gfns = o.gfns]
     /\ oops' = o.spins
     /\ UNCHANGED <<locks, arch_sdei, selftest, completing, events, kvm_events,
                    vsdei, vcpu_regs, requests, notified>>


Next ==
  \/ \E v \in Vcpus : \E args \in RegistrationCalls(v) :
       \E ok \in AllocOutcomes(args) : Hvc(v, GuestContext, args, ok)
  \/ \E v \in DeliveryVcpus : \E n \in EventNums : Inject(v, n, FALSE)
  \/ \E e \in DefinableEvents : \E ok \in BOOLEAN : SetEvent(e, ok)

Spec == Init /\ [][Next]_vars

\* Delivery specification: one VCPU registers and enables the events, takes
\* them and completes them.
NextDeliver ==
  \/ \E v \in DeliveryVcpus : \E args \in DeliveryCalls(v) :
       Hvc(v, GuestContext, args, TRUE)
  \/ \E v \in DeliveryVcpus : \E n \in EventNums : Inject(v, n, FALSE)
  \/ \E v \in DeliveryVcpus : Deliver(v)
  \/ \E e \in DefinableEvents : SetEvent(e, TRUE)

SpecDeliver == Init /\ [][NextDeliver]_vars

\* Lifecycle specification: one VCPU registers, unregisters and completes
\* the default event while it is injected, immediately or not, and
\* cancelled; the run loop delivers it.
NextLifecycle ==
  \/ \E v \in DeliveryVcpus : \E args \in LifecycleCalls(v) :
       Hvc(v, GuestContext, args, TRUE)
  \/ \E v \in DeliveryVcpus : \E imm \in BOOLEAN :
       Inject(v, KVM_SDEI_DEFAULT_NUM, imm)
  \/ \E v \in DeliveryVcpus : Cancel(v, KVM_SDEI_DEFAULT_NUM)
  \/ \E v \in DeliveryVcpus : VcpuEnter(v)

SpecLifecycle == Init /\ [][NextLifecycle]_vars

\* Query specification: one VCPU registers, enables, takes and completes the
\* default event and asks for the status of events and for the interrupted
\* context.
NextQuery ==
  \/ \E v \in DeliveryVcpus : \E args \in QueryCalls(v) :
       Hvc(v, GuestContext, args, TRUE)
  \/ \E v \in DeliveryVcpus : Inject(v, KVM_SDEI_DEFAULT_NUM, FALSE)
  \/ \E v \in DeliveryVcpus : Deliver(v)

SpecQuery == Init /\ [][NextQuery]_vars

\* Validation specification: one VCPU registers, enables, disables,
\* unregisters and routes events under well-formed and malformed numbers,
\* while events are injected.
NextValidate ==
  \/ \E v \in DeliveryVcpus : \E args \in ValidateCalls(v) :
       Hvc(v, GuestContext, args, TRUE)
  \/ \E v \in DeliveryVcpus : \E n \in EventNums : Inject(v, n, FALSE)
  \/ \E e \in DefinableEvents : SetEvent(e, TRUE)

SpecValidate == Init /\ [][NextValidate]_vars

\* Drain specification: one VCPU registers, enables, unregisters, masks and
\* completes the default event while it is injected, and the run loop
\* delivers it; the run loop always gets to serve a request that stays
\* flagged.
NextDrain ==
  \/ \E v \in DeliveryVcpus : \E args \in LifecycleCalls(v) :
       Hvc(v, GuestContext, args, TRUE)
  \/ \E v \in DeliveryVcpus : \E imm \in BOOLEAN :
       Inject(v, KVM_SDEI_DEFAULT_NUM, imm)
  \/ \E v \in DeliveryVcpus : VcpuEnter(v)

SpecDrain ==
  /\ Init
  /\ [][NextDrain]_vars
  /\ \A v \in DeliveryVcpus : WF_vars(VcpuEnter(v))

\* Notifier specification: one VCPU registers, enables, takes and completes
\* the default event while another subsystem registers its notifier.
NextNotify ==
  \/ \E v \in DeliveryVcpus :
       \E args \in { RegisterCall(v, KVM_SDEI_DEFAULT_NUM),
                      <<SDEI_1_0_FN_SDEI_EVENT_ENABLE, KVM_SDEI_DEFAULT_NUM>>,
                      <<SDEI_1_0_FN_SDEI_EVENT_COMPLETE>> } :
         Hvc(v, GuestContext, args, TRUE)
  \/ \E v \in DeliveryVcpus : Inject(v, KVM_SDEI_DEFAULT_NUM, FALSE)
  \/ \E v \in DeliveryVcpus : Deliver(v)
  \/ \E n \in {KVM_SDEI_DEFAULT_NUM, UndefinedNum} : \E f \in Notifiers :
       RegisterNotifier(n, f)

SpecNotify == Init /\ [][NextNotify]_vars

\* Consistency specification: one VCPU registers, enables, unregisters,
\* resets, takes and completes the events while they are injected and
\* cancelled.
NextConsistency ==
  \/ \E v \in DeliveryVcpus : \E args \in ConsistencyCalls(v) :
       Hvc(v, GuestContext, args, TRUE)
  \/ \E v \in DeliveryVcpus : \E n \in EventNums : Inject(v, n, FALSE)
  \/ \E v \in DeliveryVcpus : \E n \in EventNums : Cancel(v, n)
  \/ \E v \in DeliveryVcpus : Deliver(v)
  \/ \E e \in DefinableEvents : SetEvent(e, TRUE)

SpecConsistency == Init /\ [][NextConsistency]_vars

\* Routing specification: one VCPU registers and unregisters the events
\* under either route mode, sets their routing and asks for their
\* information.
NextRoute ==
  \/ \E v \in DeliveryVcpus : \E args \in RouteCalls(v) :
       Hvc(v, GuestContext, args, TRUE)
  \/ \E e \in DefinableEvents \cup DefineInputs : SetEvent(e, TRUE)

SpecRoute == Init /\ [][NextRoute]_vars

\* Page-fault specification: the guest of one VCPU registers and enables the
\* SDEI event of the asynchronous page fault and enables the notifications;
\* pages are found not present and are brought in, the run loop delivers
\* the event and checks the faults completed, the guest acknowledges.
NextApf ==
  \/ \E v \in DeliveryVcpus : \E args \in ApfCalls(v) :
       Hvc(v, GuestContext, args, TRUE)
  \/ \E v \in DeliveryVcpus : VcpuEnter(v)
  \/ \E v \in DeliveryVcpus : AsyncEnable(v)
  \/ \E v \in DeliveryVcpus : \E wr \in {"ok", "token", "reason"} :
       SetupAsyncPf(v, wr)
  \/ \E v \in DeliveryVcpus : \E tok \in apf[v].queue : AsyncPfExecute(v, tok)
  \/ \E v \in DeliveryVcpus : \E ack \in BOOLEAN : CheckCompletion(v, ack)
  \/ \E v \in DeliveryVcpus : GuestAcknowledge(v)

SpecApf == Init /\ [][NextApf]_vars

\* Selftest specification: main on the host and the guests of both VCPUs
\* run the selftest, while the management plane may define the shared
\* event.
NextSelftest ==
  \/ SendCommand
  \/ \E v \in Vcpus : GuestCommand(v)
  \/ \E e \in DefinableEvents : SetEvent(e, TRUE)

SpecSelftest == Init /\ [][NextSelftest]_vars

\* Creation specification: the VM and its VCPUs are created, the
\* allocations succeeding or not, and the guests of the VCPUs created call
\* the dispatcher.
NextCreate ==
  \/ \E ksdei_ok \in BOOLEAN : \E kse_ok \in BOOLEAN : InitVm(ksdei_ok, kse_ok)
  \/ \E v \in Vcpus : \E alloc_ok \in BOOLEAN : CreateVcpu(v, alloc_ok)
  \/ \E v \in Vcpus : \E args \in CreateCalls(v) :
       Hvc(v, GuestContext, args, TRUE)

SpecCreate == InitCreate /\ [][NextCreate]_vars

\* Completion specification: both VCPUs register and enable the private
\* default event and unmask themselves, the event is injected
\* into either and delivered, and each VCPU completes its instance in the
\* two steps of the decrement; a VCPU inside its handler, holding its
\* vsdei->lock, issues no other call and is not delivered to, and no
\* injection, which counts on the record too, overlaps a decrement.
NextComplete ==
  \/ \E v \in Vcpus :
       \E args \in {RegisterCall(v, KVM_SDEI_DEFAULT_NUM),
                    <<SDEI_1_0_FN_SDEI_EVENT_ENABLE, KVM_SDEI_DEFAULT_NUM>>,
                    <<SDEI_1_0_FN_SDEI_PE_UNMASK>>} :
         completing[v] = << >> /\ Hvc(v, GuestContext, args, TRUE)
  \/ \E v \in Vcpus :
       /\ \A w \in Vcpus : completing[w] = << >>
       /\ Inject(v, KVM_SDEI_DEFAULT_NUM, FALSE)
  \/ \E v \in Vcpus : completing[v] = << >> /\ Deliver(v)
  \/ \E v \in Vcpus : CompleteLoad(v, FALSE)
  \/ \E v \in Vcpus : CompleteStore(v)

SpecComplete == Init /\ [][NextComplete]_vars

\* Locking specification: every thread enters the functions that take
\* ksdei->lock or vsdei->lock, and takes and releases the locks as the
\* function does.
NextLocks ==
  \/ \E t \in Threads : \E v \in Vcpus :
       \E fn \in VcpuThreadFunctions \cup OtherThreadFunctions : Enter(t, fn, v)
  \/ \E t \in Threads : spin_lock(t)
  \/ \E t \in Threads : spin_unlock(t)

SpecLocks == Init /\ [][NextLocks]_vars

\* The pages that fault in the slot specification.
Gfns == 1..MaxGfn

\* Slot specification: pages are added to and removed from the table of
\* faulting pages of a VCPU, in any order.
NextSlots ==
  \/ \E v \in DeliveryVcpus : \E gfn \in Gfns : AddSlot(v, gfn)
  \/ \E v \in DeliveryVcpus : \E gfn \in Gfns : RemoveSlot(v, gfn)

SpecSlots == Init /\ [][NextSlots]_vars

\* -------------------------------------------------------------- properties

\* The registers, PC and PSTATE of a context, as a lane saves them.
Live(c) == [regs |-> c.regs, pc |-> c.pc, pstate |-> c.pstate]

\* VCPU v issues SDEI_EVENT_COMPLETE, SDEI_EVENT_COMPLETE_AND_RESUME,
\* SDEI_EVENT_UNREGISTER of the default event.
CompleteCall(v) ==
  Hvc(v, GuestContext, <<SDEI_1_0_FN_SDEI_EVENT_COMPLETE>>, TRUE)
CompleteAndResumeCall(v) ==
  Hvc(v, GuestContext,
      <<SDEI_1_0_FN_SDEI_EVENT_COMPLETE_AND_RESUME, ResumeOf(v)>>, TRUE)
UnregisterCall(v) ==
  Hvc(v, GuestContext,
      <<SDEI_1_0_FN_SDEI_EVENT_UNREGISTER, KVM_SDEI_DEFAULT_NUM>>, TRUE)

\* The event a step puts into a lane of VCPU v, 0 when it puts none.
DeliveredNum(v) ==
  IF vsdei'[v].critical_event # vsdei[v].critical_event
  THEN vsdei'[v].critical_event
  ELSE IF vsdei'[v].normal_event # vsdei[v].normal_event
  THEN vsdei'[v].normal_event
  ELSE 0

\* C1: an event's delivery saves the interrupted x0..x17, PC and PSTATE in
\* the lane, the lane keeps them while it stays occupied, and
\* SDEI_EVENT_COMPLETE puts exactly them back, leaves the lane idle and
\* writes no return value over them.
C1_CompleteRestoresContext ==
  [][\A v \in Vcpus :
       /\ (vsdei[v].critical_event = 0 /\ vsdei'[v].critical_event # 0)
            => vsdei'[v].critical_regs = Live(vcpu_regs[v])
       /\ (vsdei[v].normal_event = 0 /\ vsdei'[v].normal_event # 0)
            => vsdei'[v].normal_regs = Live(vcpu_regs[v])
       /\ (vsdei[v].critical_event # 0 /\ vsdei'[v].critical_event # 0)
            => vsdei'[v].critical_regs = vsdei[v].critical_regs
       /\ (vsdei[v].normal_event # 0 /\ vsdei'[v].normal_event # 0)
            => vsdei'[v].normal_regs = vsdei[v].normal_regs
       /\ (CompleteCall(v) /\ vsdei[v].critical_event # 0)
            => /\ Live(vcpu_regs'[v]) = vsdei[v].critical_regs
               /\ vsdei'[v].critical_event = 0
               /\ vsdei'[v].critical_num = KVM_SDEI_INVALID_NUM
               /\ vsdei'[v].normal_event = vsdei[v].normal_event
       /\ (CompleteCall(v) /\ vsdei[v].critical_event = 0 /\ vsdei[v].normal_event # 0)
            => /\ Live(vcpu_regs'[v]) = vsdei[v].normal_regs
               /\ vsdei'[v].normal_event = 0
               /\ vsdei'[v].normal_num = KVM_SDEI_INVALID_NUM
  ]_vars

\* A VCPU back in the guest context an event interrupted, both lanes idle.
C1_Restored ==
  \E v \in Vcpus :
    /\ vsdei[v].critical_event = 0
    /\ vsdei[v].normal_event = 0
    /\ Live(vcpu_regs[v]) \in {vsdei[v].critical_regs, vsdei[v].normal_regs}
    /\ vcpu_regs[v].regs[NR_REGS - 1] = GuestContext.regs[NR_REGS - 1]
    /\ vcpu_regs[v].pstate = GuestContext.pstate

\* C2: whatever the VCPUs register, enable, disable, unregister and reset,
\* an event is enabled only at the indexes it is registered at.
C2_EnabledImpliesRegistered ==
  \A k \in 1..Len(kvm_events) :
    kvm_events[k].enabled \subseteq kvm_events[k].registered

\* An event still enabled at one index after it was registered and then
\* unregistered at another.
C2_EnabledBesideUnregistered ==
  \E k \in 1..Len(kvm_events) : \E i \in Indexes :
    /\ kvm_events[k].enabled # {}
    /\ i \notin kvm_events[k].registered
    /\ kvm_events[k].entries[i] # 0

\* C3: kvm_sdei_deliver on a masked VCPU delivers nothing: it leaves the
\* lanes, the pending events, the saved contexts and the guest's registers
\* as they are.
C3_MaskedDeliverChangesNothing ==
  [][\A v \in Vcpus :
       (Deliver(v) /\ vsdei[v].masked = 1)
         => (vsdei'[v] = vsdei[v] /\ vcpu_regs'[v] = vcpu_regs[v])
  ]_vars

\* C4: with a normal event running, the critical lane idle and a critical
\* event pending, kvm_sdei_deliver puts the critical event into the critical
\* lane with the interrupted handler's context, and leaves the normal lane's
\* occupant and saved context alone.
C4_CriticalPreemptsNormal ==
  \A v \in Vcpus :
    (/\ vsdei[v].normal_event # 0
     /\ vsdei[v].critical_event = 0
     /\ vsdei[v].critical_events # << >>)
      => LET o == kvm_sdei_deliver(v)
             critical == vsdei[v].critical_events[1].num
         IN /\ o.vs.critical_event = critical
            /\ o.vs.critical_num = critical
            /\ o.vs.critical_regs = Live(vcpu_regs[v])
            /\ o.vs.normal_event = vsdei[v].normal_event
            /\ o.vs.normal_num = vsdei[v].normal_num
            /\ o.vs.normal_regs = vsdei[v].normal_regs
            /\ o.ctxt.regs[0] = critical

\* A critical event running over a normal one.
C4_BothLanesOccupied ==
  \E v \in Vcpus :
    /\ vsdei[v].normal_event # 0
    /\ vsdei[v].critical_event # 0
    /\ vsdei[v].critical_regs.pc = kvm_events[
         kvm_sdei_find_kvm_event(kvm_events, vsdei[v].normal_event)].entries[0]

\* C5: while a normal event runs, kvm_sdei_deliver never selects a pending
\* normal event: the pending ones stay queued, the normal lane keeps its
\* occupant and saved context, and with no critical event pending the call
\* changes nothing at all.
C5_NormalNotPreemptedByNormal ==
  [][\A v \in Vcpus :
       (Deliver(v) /\ vsdei[v].normal_event # 0)
         => /\ vsdei'[v].normal_event = vsdei[v].normal_event
            /\ vsdei'[v].normal_num = vsdei[v].normal_num
            /\ vsdei'[v].normal_regs = vsdei[v].normal_regs
            /\ vsdei'[v].normal_events = vsdei[v].normal_events
            /\ vsdei[v].critical_events = << >>
                 => (vsdei'[v] = vsdei[v] /\ vcpu_regs'[v] = vcpu_regs[v])
  ]_vars

\* A normal event running with a second instance pending behind it and no
\* critical event about.
C5_SecondNormalPending ==
  \E v \in Vcpus :
    /\ vsdei[v].normal_event # 0
    /\ vsdei[v].normal_events # << >>
    /\ vsdei[v].normal_events[1].refcount = 2
    /\ vsdei[v].critical_event = 0
    /\ vsdei[v].critical_events = << >>

\* C6: a lane holds one event: an occupied lane is never given another
\* occupant, and kvm_sdei_deliver with the critical lane occupied changes
\* nothing.
C6_OneEventPerLane ==
  [][\A v \in Vcpus :
       /\ (vsdei[v].critical_event # 0 /\ vsdei'[v].critical_event # 0)
            => vsdei'[v].critical_event = vsdei[v].critical_event
       /\ (vsdei[v].normal_event # 0 /\ vsdei'[v].normal_event # 0)
            => vsdei'[v].normal_event = vsdei[v].normal_event
       /\ (Deliver(v) /\ vsdei[v].critical_event # 0) => UNCHANGED vars
  ]_vars

\* A critical event running with a second instance pending behind it.
C6_SecondCriticalPending ==
  \E v \in Vcpus :
    /\ vsdei[v].critical_event # 0
    /\ vsdei[v].critical_events # << >>
    /\ vsdei[v].critical_events[1].refcount = 2

\* C7: SDEI_EVENT_UNREGISTER of an event with an instance running returns
\* SDEI_PENDING and clears the caller's enabled and registered bits at once.
C7_UnregisterRunningClearsBits ==
  [][\A v \in Vcpus :
       LET k == kvm_sdei_find_kvm_event(kvm_events, KVM_SDEI_DEFAULT_NUM)
           k2 == kvm_sdei_find_kvm_event(kvm_events', KVM_SDEI_DEFAULT_NUM)
       IN (/\ UnregisterCall(v)
           /\ k # 0
           /\ v \in kvm_events[k].registered
           /\ vsdei[v].critical_event = KVM_SDEI_DEFAULT_NUM)
            => /\ vcpu_regs'[v].regs[0] = SDEI_PENDING
               /\ k2 # 0 => /\ v \notin kvm_events'[k2].registered
                            /\ v \notin kvm_events'[k2].enabled
  ]_vars

\* C8: a delivery enters the handler with x0 the event number, x1 the
\* argument and PC the entry point registered at the event's index (the
\* VCPU's index for a private event, 0 for a shared one), x2 and x3 the
\* interrupted PC and PSTATE, x4..x17 zero, and the interrupted PSTATE with
\* D, A, I, F set, mode EL1h and the AArch32 bit clear.
C8_HandlerEntryContext ==
  [][\A v \in Vcpus :
       (Deliver(v) /\ DeliveredNum(v) # 0)
         => LET n == DeliveredNum(v)
                kske == kvm_events[kvm_sdei_find_kvm_event(kvm_events, n)]
                private == events[kvm_sdei_find_event(n)].type = SDEI_EVENT_TYPE_PRIVATE
                idx == IF private THEN v ELSE 0
                old == vcpu_regs[v]
                new == vcpu_regs'[v]
                daif == PSR_D_BIT + PSR_A_BIT + PSR_I_BIT + PSR_F_BIT
                touched == daif + PSR_MODE_MASK + PSR_MODE32_BIT
            IN /\ new.regs[0] = n
               /\ new.regs[1] = kske.params[idx]
               /\ new.regs[2] = old.pc
               /\ new.regs[3] = old.pstate
               /\ \A i \in 4..(NR_REGS - 1) : new.regs[i] = 0
               /\ new.pc = kske.entries[idx]
               /\ private => (new.pc = EntryOf(v) /\ new.regs[1] = ParamOf(v))
               /\ ~private => \E w \in Vcpus :
                                new.pc = EntryOf(w) /\ new.regs[1] = ParamOf(w)
               /\ BitAnd(new.pstate, daif) = daif
               /\ BitAnd(new.pstate, PSR_MODE_MASK) = PSR_MODE_EL1h
               /\ BitAnd(new.pstate, PSR_MODE32_BIT) = 0
               /\ BitAndNot(new.pstate, touched) = BitAndNot(old.pstate, touched)
  ]_vars

\* VCPU 1 in the handler of the shared event, taken from AArch32 state.
C8_SharedHandlerEntered ==
  /\ vsdei[1].normal_event = SharedNum
  /\ vsdei[1].critical_event = 0
  /\ vsdei[1].normal_regs.pstate = GuestContext.pstate
  /\ vcpu_regs[1].regs[0] = SharedNum
  /\ vcpu_regs[1].pc = EntryOf(1)

\* C9: SDEI_EVENT_COMPLETE and SDEI_EVENT_COMPLETE_AND_RESUME with no lane
\* occupied fail: the guest finds SDEI_DENIED in x0 and nothing else changes.
C9_CompleteIdleReturnsDenied ==
  [][\A v \in Vcpus :
       ((CompleteCall(v) \/ CompleteAndResumeCall(v))
        /\ vsdei[v].critical_event = 0
        /\ vsdei[v].normal_event = 0)
         => /\ vcpu_regs'[v].regs[0] = SDEI_DENIED
            /\ UNCHANGED <<events, kvm_events, vsdei, requests>>
  ]_vars

StatusCall(v, n) ==
  Hvc(v, GuestContext, <<SDEI_1_0_FN_SDEI_EVENT_STATUS, n>>, TRUE)
ContextCall(v, i) ==
  Hvc(v, GuestContext, <<SDEI_1_0_FN_SDEI_EVENT_CONTEXT, i>>, TRUE)

\* The status bits of event n at VCPU v: registered and enabled at the
\* event's index, running when the record counts an instance.
StatusBits(v, n) ==
  LET kske == kvm_events[kvm_sdei_find_kvm_event(kvm_events, n)]
      idx == IF events[kvm_sdei_find_event(n)].type = SDEI_EVENT_TYPE_PRIVATE
             THEN v ELSE 0
  IN (IF idx \in kske.registered THEN 2 ^ SDEI_EVENT_STATUS_REGISTERED ELSE 0)
     + (IF idx \in kske.enabled THEN 2 ^ SDEI_EVENT_STATUS_ENABLED ELSE 0)
     + (IF kske.refcount > 0 THEN 2 ^ SDEI_EVENT_STATUS_RUNNING ELSE 0)

\* C11: SDEI_EVENT_STATUS of a well-formed event number returns 0 when the
\* event has no registration record; otherwise the host does not fault and
\* the guest finds in x0 the Registered, Enabled and Running bits of the
\* event at its index (the VCPU's for a private event, 0 for a shared one).
C11_StatusReportsBits ==
  [][\A v \in Vcpus : \A n \in EventNums :
       StatusCall(v, n)
         => IF kvm_sdei_find_kvm_event(kvm_events, n) = 0
            THEN vcpu_regs'[v].regs[0] = 0 /\ ~oops'
            ELSE ~oops' /\ vcpu_regs'[v].regs[0] = StatusBits(v, n)
  ]_vars

\* C12: SDEI_EVENT_CONTEXT returns register i of the saved context of the
\* occupied lane (the critical one when both are occupied) for i in 0..17,
\* SDEI_DENIED for such an i when no lane is occupied, and
\* SDEI_INVALID_PARAMETERS for every other i, 18 included, without reading
\* a saved context.
C12_ContextReturnsSavedRegister ==
  [][\A v \in Vcpus : \A i \in ContextIndexes :
       ContextCall(v, i)
         => /\ ~oops'
            /\ vcpu_regs'[v].regs[0] =
                 IF i \notin 0..(NR_REGS - 1) THEN SDEI_INVALID_PARAMETERS
                 ELSE IF vsdei[v].critical_event # 0
                 THEN vsdei[v].critical_regs.regs[i]
                 ELSE IF vsdei[v].normal_event # 0
                 THEN vsdei[v].normal_regs.regs[i]
                 ELSE SDEI_DENIED
  ]_vars

\* An event number is well formed when it is below 2^32 and its bits
\* [23:22] are 01.
WellFormed(n) == n >= 0 /\ (n \div 4194304) % 4 = 1

\* Event n has a registration record.
HasRecord(n) == \E k \in 1..Len(kvm_events) : kvm_events[k].num = n

\* What a step that is a call about event n on VCPU v answers when it
\* validates in the fixed order.
ValidatedInOrder(v, n) ==
  /\ ~WellFormed(n) => vcpu_regs'[v].regs[0] = SDEI_INVALID_PARAMETERS
  /\ (WellFormed(n) /\ ~HasRecord(n))
       => vcpu_regs'[v].regs[0] = SDEI_INVALID_PARAMETERS
  /\ vcpu_regs'[v].regs[0] \in {SDEI_DENIED, SDEI_PENDING}
       => (WellFormed(n) /\ HasRecord(n))
  /\ vcpu_regs'[v].regs[0] # SDEI_SUCCESS
       => UNCHANGED <<events, kvm_events, vsdei, requests, oops>>

\* C13: SDEI_EVENT_ENABLE, _DISABLE, _UNREGISTER and _ROUTING_SET answer
\* SDEI_INVALID_PARAMETERS for a malformed event number whatever the state,
\* SDEI_INVALID_PARAMETERS for a well-formed number without a registration
\* record, SDEI_DENIED or SDEI_PENDING only when a record exists, and a
\* call that fails changes no registration or VCPU state.
C13_ValidationOrder ==
  [][\A v \in Vcpus : \A n \in ValidateNums :
       /\ \A f \in {SDEI_1_0_FN_SDEI_EVENT_ENABLE,
                     SDEI_1_0_FN_SDEI_EVENT_DISABLE,
                     SDEI_1_0_FN_SDEI_EVENT_UNREGISTER} :
            \/ ValidatedInOrder(v, n)
            \/ ~Hvc(v, GuestContext, <<f, n>>, TRUE)
       /\ \A m \in RouteModes :
            \/ ValidatedInOrder(v, n)
            \/ ~Hvc(v, GuestContext,
                    <<SDEI_1_0_FN_SDEI_EVENT_ROUTING_SET, n, m, v>>, TRUE)
  ]_vars

\* Each kind of failure has been answered: a malformed number and an
\* unknown one with SDEI_INVALID_PARAMETERS, a state-machine error with
\* SDEI_DENIED, on a VM that holds an enabled event with an instance
\* outstanding.
C13_FailuresAnswered ==
  /\ \E k \in 1..Len(kvm_events) :
       kvm_events[k].refcount > 0 /\ kvm_events[k].enabled # {}
  /\ vcpu_regs[1].regs[0] = SDEI_PENDING

\* The index event n is kept under for VCPU v: the VCPU's for a private
\* event, 0 for a shared one.
RelevantIndex(v, n) ==
  IF \E e \in 1..Len(events) :
       events[e].num = n /\ events[e].type = SDEI_EVENT_TYPE_PRIVATE
  THEN v ELSE 0

\* Event n is registered at the index relevant for VCPU v.
RegisteredFor(v, n) ==
  \E k \in 1..Len(kvm_events) :
    kvm_events[k].num = n /\ RelevantIndex(v, n) \in kvm_events[k].registered

\* C14: SDEI_EVENT_REGISTER (with a well-formed number and a valid route
\* mode) of an event already registered at the caller's index answers
\* SDEI_DENIED and leaves every registration record as it is: handler
\* entries, arguments, route mode, route affinity, registered and enabled
\* bits.
C14_ReRegisterDenied ==
  [][\A v \in Vcpus : \A n \in EventNums :
       \A args \in {RegisterCall(v, n), ReRegisterCall(v, n)} :
         (RegisteredFor(v, n) /\ Hvc(v, GuestContext, args, TRUE))
           => /\ vcpu_regs'[v].regs[0] = SDEI_DENIED
              /\ UNCHANGED <<events, kvm_events, vsdei, requests, oops>>
  ]_vars

\* A registration refused on a VCPU whose events are both registered, one
\* with the first call's handler and one with the second call's.
C14_RefusedOverBothHandlers ==
  \E v \in Vcpus :
    /\ vcpu_regs[v].regs[0] = SDEI_DENIED
    /\ \A n \in EventNums : RegisteredFor(v, n)
    /\ \E k \in 1..Len(kvm_events) : \E i \in Indexes :
         kvm_events[k].entries[i] = EntryOf(v)
    /\ \E k \in 1..Len(kvm_events) : \E i \in Indexes :
         /\ kvm_events[k].entries[i] = EntryOf(v) + 8
         /\ kvm_events[k].route_mode = SDEI_EVENT_REGISTER_RM_PE

\* Event n is enabled at the index relevant for VCPU v, in this state and in
\* the next one.
EnabledFor(v, n) ==
  \E k \in 1..Len(kvm_events) :
    kvm_events[k].num = n /\ RelevantIndex(v, n) \in kvm_events[k].enabled
EnabledForNext(v, n) ==
  \E k \in 1..Len(kvm_events') :
    kvm_events'[k].num = n /\ RelevantIndex(v, n) \in kvm_events'[k].enabled

\* No instance of event n is outstanding.
Quiescent(n) ==
  \A k \in 1..Len(kvm_events) : kvm_events[k].num = n => kvm_events[k].refcount = 0

\* C15: for an event registered at the caller's index with no instance
\* outstanding, SDEI_EVENT_ENABLE succeeds and sets the enabled bit when it
\* is clear and answers SDEI_DENIED, leaving the bit set, when it is set;
\* SDEI_EVENT_DISABLE likewise succeeds on a set bit and is denied on a
\* clear one.  So the second of two consecutive enables, or disables, is
\* denied.
C15_SecondEnableDenied ==
  [][\A v \in Vcpus : \A n \in EventNums :
       /\ (RegisteredFor(v, n) /\ Quiescent(n)
            /\ Hvc(v, GuestContext, <<SDEI_1_0_FN_SDEI_EVENT_ENABLE, n>>, TRUE))
           => IF EnabledFor(v, n)
              THEN /\ vcpu_regs'[v].regs[0] = SDEI_DENIED
                   /\ kvm_events' = kvm_events
              ELSE /\ vcpu_regs'[v].regs[0] = SDEI_SUCCESS
                   /\ EnabledForNext(v, n)
       /\ (RegisteredFor(v, n) /\ Quiescent(n)
            /\ Hvc(v, GuestContext, <<SDEI_1_0_FN_SDEI_EVENT_DISABLE, n>>, TRUE))
           => IF EnabledFor(v, n)
              THEN /\ vcpu_regs'[v].regs[0] = SDEI_SUCCESS
                   /\ ~EnabledForNext(v, n)
              ELSE /\ vcpu_regs'[v].regs[0] = SDEI_DENIED
                   /\ kvm_events' = kvm_events
  ]_vars

\* A call denied on a VCPU with one event registered and enabled and the
\* other registered and disabled, neither with an instance outstanding.
C15_DeniedBesideEnabledAndDisabled ==
  \E v \in Vcpus :
    /\ vcpu_regs[v].regs[0] = SDEI_DENIED
    /\ \A n \in EventNums : RegisteredFor(v, n) /\ Quiescent(n)
    /\ \E n \in EventNums : EnabledFor(v, n)
    /\ \E n \in EventNums : ~EnabledFor(v, n)

\* C16: a VCPU is created masked; SDEI_PE_MASK on a masked VCPU and
\* SDEI_PE_UNMASK on an unmasked one answer SDEI_DENIED and leave the flag
\* as it is; SDEI_PE_MASK on an unmasked VCPU and SDEI_PE_UNMASK on a masked
\* one answer SDEI_SUCCESS and flip the flag.
C16_MaskToggle ==
  /\ \A v \in Vcpus : vsdei[v].masked = 1
  /\ [][\A v \in Vcpus :
          /\ Hvc(v, GuestContext, <<SDEI_1_0_FN_SDEI_PE_MASK>>, TRUE)
               => IF vsdei[v].masked = 1
                  THEN /\ vcpu_regs'[v].regs[0] = SDEI_DENIED
                       /\ vsdei'[v].masked = 1
                  ELSE /\ vcpu_regs'[v].regs[0] = SDEI_SUCCESS
                       /\ vsdei'[v].masked = 1
          /\ Hvc(v, GuestContext, <<SDEI_1_0_FN_SDEI_PE_UNMASK>>, TRUE)
               => IF vsdei[v].masked = 0
                  THEN /\ vcpu_regs'[v].regs[0] = SDEI_DENIED
                       /\ vsdei'[v].masked = 0
                  ELSE /\ vcpu_regs'[v].regs[0] = SDEI_SUCCESS
                       /\ vsdei'[v].masked = 0
     ]_vars

\* SDEI_PE_UNMASK denied on an unmasked VCPU: with no registration record
\* in the VM no other call answers SDEI_DENIED.
C16_UnmaskDenied ==
  \E v \in Vcpus :
    /\ vsdei[v].masked = 0
    /\ vcpu_regs[v].regs[0] = SDEI_DENIED
    /\ kvm_events = << >>

\* C17: a SDEI_PE_UNMASK that succeeds on a VCPU with an event pending
\* flags the deferred delivery request KVM_REQ_SDEI for that VCPU.
C17_UnmaskRequestsDelivery ==
  [][\A v \in Vcpus :
       (/\ vsdei[v].masked = 1
        /\ (vsdei[v].critical_events # << >> \/ vsdei[v].normal_events # << >>)
        /\ Hvc(v, GuestContext, <<SDEI_1_0_FN_SDEI_PE_UNMASK>>, TRUE))
         => (vcpu_regs'[v].regs[0] = SDEI_SUCCESS /\ requests'[v])
  ]_vars

\* C18: a SDEI_EVENT_COMPLETE or SDEI_EVENT_COMPLETE_AND_RESUME that
\* succeeds while an event is still pending on the VCPU flags KVM_REQ_SDEI;
\* and a flagged request with an event pending leads to that event
\* occupying a lane, with no injection needed in between.  So the pending
\* events are delivered one after the other as the guest completes each
\* handler.
C18_CompleteRequestsNextDelivery ==
  /\ [][\A v \in Vcpus :
          (/\ (vsdei[v].critical_event # 0 \/ vsdei[v].normal_event # 0)
           /\ (vsdei'[v].critical_events # << >> \/ vsdei'[v].normal_events # << >>)
           /\ (CompleteCall(v) \/ CompleteAndResumeCall(v)))
            => requests'[v]
     ]_vars
  /\ \A v \in DeliveryVcpus :
       (/\ requests[v]
        /\ (vsdei[v].critical_events # << >> \/ vsdei[v].normal_events # << >>))
         ~> (vsdei[v].critical_event # 0 \/ vsdei[v].normal_event # 0)

\* A VCPU back in the interrupted context after completing one instance,
\* with a second instance pending, both lanes idle and the request flagged.
C18_CompletedWithOnePending ==
  \E v \in Vcpus :
    /\ vsdei[v].critical_event = 0
    /\ vsdei[v].normal_event = 0
    /\ vsdei[v].critical_events # << >>
    /\ requests[v]
    /\ vsdei[v].critical_regs.pc = GuestContext.pc
    /\ Live(vcpu_regs[v]) = vsdei[v].critical_regs

\* C19: for every event instance the notifier is called with Delivered
\* before it is called with Completed, and never with Completed without an
\* earlier Delivered for that instance: the calls made for the latest
\* instance of a lane are none, Delivered, or Delivered then Completed.
C19_DeliveredBeforeCompleted ==
  \A v \in Vcpus :
    {notified[v].critical, notified[v].normal}
      \subseteq { << >>, <<KVM_SDEI_NOTIFY_DELIVERED>>,
                  <<KVM_SDEI_NOTIFY_DELIVERED, KVM_SDEI_NOTIFY_COMPLETED>> }

\* The registration records of the events of one type, in list order.
RecordsOfType(list, type) ==
  SelectSeq(list, LAMBDA kske :
    \E e \in 1..Len(events) : events[e].num = kske.num /\ events[e].type = type)

\* What SDEI_PRIVATE_RESET (type private) or SDEI_SHARED_RESET (type
\* shared) has to leave on VCPU v's call.
ResetClearsType(v, type, other) ==
  /\ vcpu_regs'[v].regs[0] = SDEI_SUCCESS
  /\ \A k \in 1..Len(RecordsOfType(kvm_events', type)) :
       /\ RecordsOfType(kvm_events', type)[k].registered = {}
       /\ RecordsOfType(kvm_events', type)[k].enabled = {}
  /\ \A k \in 1..Len(kvm_events) :
       kvm_events[k].refcount > 0
         => \E j \in 1..Len(kvm_events') :
              /\ kvm_events'[j].num = kvm_events[k].num
              /\ kvm_events'[j].refcount = kvm_events[k].refcount
  /\ RecordsOfType(kvm_events', other) = RecordsOfType(kvm_events, other)
  /\ UNCHANGED <<events, vsdei, requests, oops>>

\* C20: SDEI_PRIVATE_RESET (SDEI_SHARED_RESET) succeeds and leaves no
\* private (shared) event with a registered or enabled bit at any index,
\* events with an instance in flight included, while the records of the
\* other type, the VCPUs' lanes, pending events and saved contexts and the
\* counts of the instances in flight stay as they are.
C20_ResetClearsBits ==
  [][\A v \in Vcpus :
       /\ Hvc(v, GuestContext, <<SDEI_1_0_FN_SDEI_PRIVATE_RESET>>, TRUE)
            => ResetClearsType(v, SDEI_EVENT_TYPE_PRIVATE, SDEI_EVENT_TYPE_SHARED)
       /\ Hvc(v, GuestContext, <<SDEI_1_0_FN_SDEI_SHARED_RESET>>, TRUE)
            => ResetClearsType(v, SDEI_EVENT_TYPE_SHARED, SDEI_EVENT_TYPE_PRIVATE)
  ]_vars

\* Every event queued on VCPU v has a registration record with the
\* registered bit of the index the VCPU uses for it.
PendingRegistered(v) ==
  \A list \in {vsdei[v].critical_events, vsdei[v].normal_events} :
    \A i \in 1..Len(list) :
      LET k == kvm_sdei_find_kvm_event(kvm_events, list[i].num)
      IN /\ k # 0
         /\ kvm_sdei_is_registered(kvm_events[k], IndexOf(KseOf(kvm_events[k]), v))

\* A step that occupies a lane of VCPU v leaves in it the context the VCPU
\* had before the step, and a lane that stays occupied keeps its context.
LaneSavedAtDelivery(v) ==
  /\ vsdei'[v].critical_event # 0
       => vsdei'[v].critical_regs =
            IF vsdei[v].critical_event = 0 THEN Live(vcpu_regs[v])
            ELSE vsdei[v].critical_regs
  /\ vsdei'[v].normal_event # 0
       => vsdei'[v].normal_regs =
            IF vsdei[v].normal_event = 0 THEN Live(vcpu_regs[v])
            ELSE vsdei[v].normal_regs

\* C21: in every reachable state every event pending for a VCPU is
\* registered at that VCPU's index, and every occupied lane holds the
\* context saved at its delivery, whatever hypercalls, injections and
\* cancellations come.
C21_PendingIsRegistered ==
  /\ [](\A v \in Vcpus : PendingRegistered(v))
  /\ [][\A v \in Vcpus : LaneSavedAtDelivery(v)]_vars

\* The handler of a running event has been answered SDEI_PENDING while
\* another event is pending.
C21_RefusedWhilePending ==
  \E v \in Vcpus :
    /\ vsdei[v].critical_event # 0
    /\ vsdei[v].normal_events # << >>
    /\ vsdei[v].normal_event = 0
    /\ vcpu_regs[v].regs[0] = SDEI_PENDING
    /\ vcpu_regs[v].regs[1] = 0

\* What SDEI_EVENT_GET_INFO answers VCPU v about event n in this state.
InfoOf(v, n, kind) ==
  kvm_sdei_hypercall_info(v,
    LoadArgs(GuestAt(vcpu_regs[v], GuestContext),
             <<SDEI_1_0_FN_SDEI_EVENT_GET_INFO, n, kind>>)).ret

\* C22: after a successful SDEI_EVENT_REGISTER of a shared event with route
\* mode M and affinity A, SDEI_EVENT_GET_INFO answers M for the routing mode
\* and A for the routing affinity, also when the registration created the
\* record; for a defined shared event without a registration it answers
\* RM_ANY and 0.
C22_InfoReturnsRegisteredRouting ==
  /\ [](\A v \in Vcpus : \A e \in 1..Len(events) :
         (/\ events[e].type = SDEI_EVENT_TYPE_SHARED
          /\ kvm_sdei_find_kvm_event(kvm_events, events[e].num) = 0)
           => /\ InfoOf(v, events[e].num, SDEI_EVENT_INFO_EV_ROUTING_MODE)
                   = SDEI_EVENT_REGISTER_RM_ANY
              /\ InfoOf(v, events[e].num, SDEI_EVENT_INFO_EV_ROUTING_AFF) = 0)
  /\ [][\A v \in Vcpus :
          \A args \in {RegisterCall(v, SharedNum), ReRegisterCall(v, SharedNum)} :
            (/\ Hvc(v, GuestContext, args, TRUE)
             /\ vcpu_regs'[v].regs[0] = SDEI_SUCCESS)
              => /\ InfoOf(v, SharedNum, SDEI_EVENT_INFO_EV_ROUTING_MODE)' = args[5]
                 /\ InfoOf(v, SharedNum, SDEI_EVENT_INFO_EV_ROUTING_AFF)' = args[6]
     ]_vars

\* What a step that is SDEI_EVENT_ROUTING_SET(n, m, a) on VCPU v has to
\* answer and leave, for a defined event n and a route mode m.
RoutingSetAnswers(v, n, m, a) ==
  LET k == kvm_sdei_find_kvm_event(kvm_events, n)
      ret == vcpu_regs'[v].regs[0]
      shared == \E e \in 1..Len(events) :
                  events[e].num = n /\ events[e].type = SDEI_EVENT_TYPE_SHARED
      valid == m \in {SDEI_EVENT_REGISTER_RM_ANY, SDEI_EVENT_REGISTER_RM_PE}
  IN /\ ~shared => ret \notin {SDEI_SUCCESS, SDEI_PENDING}
     /\ (shared /\ valid /\ k # 0 /\ (EnabledFor(v, n) \/ ~Quiescent(n)))
          => ret = SDEI_DENIED
     /\ ret # SDEI_SUCCESS => UNCHANGED <<events, kvm_events, vsdei, requests, oops>>
     /\ (shared /\ valid /\ RegisteredFor(v, n) /\ ~EnabledFor(v, n) /\ Quiescent(n))
          => /\ ret = SDEI_SUCCESS
             /\ kvm_events' = [kvm_events EXCEPT ![k].route_mode = m,
                                                 ![k].route_affinity = a]
             /\ UNCHANGED <<events, vsdei, requests, oops>>

\* C23: SDEI_EVENT_ROUTING_SET fails on a private event; on a shared event
\* that is enabled or has an instance outstanding it answers SDEI_DENIED
\* (the route mode being RM_ANY or RM_PE); a call that fails leaves route
\* mode and affinity, and all other state, as they are; on a registered,
\* disabled shared event without an outstanding instance it succeeds and
\* records the new mode and affinity.
C23_RoutingSetOnlyWhileQuiesced ==
  [][\A v \in Vcpus : \A n \in EventNums : \A m \in RouteModes :
       \/ RoutingSetAnswers(v, n, m, v)
       \/ ~Hvc(v, GuestContext,
               <<SDEI_1_0_FN_SDEI_EVENT_ROUTING_SET, n, m, v>>, TRUE)
  ]_vars

\* A routing change has succeeded on the shared event, which has then been
\* enabled, and a further call has been denied.
C23_DeniedAfterRouted ==
  \E k \in 1..Len(kvm_events) :
    /\ kvm_events[k].num = SharedNum
    /\ kvm_events[k].route_mode = SDEI_EVENT_REGISTER_RM_PE
    /\ kvm_events[k].route_affinity = 1
    /\ kvm_events[k].enabled = {0}
    /\ kvm_events[k].refcount > 0
    /\ vcpu_regs[1].regs[0] = SDEI_DENIED

\* What VCPU v is answered in this state by the call with arguments args.
AnswerOf(v, args) ==
  LET c == LoadArgs(GuestAt(vcpu_regs[v], GuestContext), args)
  IN CASE args[1] = SDEI_1_0_FN_SDEI_EVENT_REGISTER ->
            kvm_sdei_hypercall_register(v, c, TRUE).ret
       [] args[1] = SDEI_1_0_FN_SDEI_EVENT_ENABLE ->
            kvm_sdei_hypercall_enable(v, c, TRUE).ret
       [] args[1] = SDEI_1_0_FN_SDEI_EVENT_STATUS ->
            kvm_sdei_hypercall_status(v, c, "other").ret

\* C24: a registration record exists exactly while an index is registered
\* or an instance is outstanding.  No record has an empty registered bitmap
\* and no instance; a successful SDEI_EVENT_REGISTER of an event without a
\* record creates it; a successful SDEI_EVENT_UNREGISTER of the last
\* registered index removes it, after which SDEI_EVENT_STATUS answers 0,
\* SDEI_EVENT_ENABLE SDEI_INVALID_PARAMETERS and a new SDEI_EVENT_REGISTER
\* succeeds, while one of an index that is not the last keeps it.
C24_RecordWhileRegistered ==
  /\ [](\A k \in 1..Len(kvm_events) :
         kvm_events[k].registered # {} \/ kvm_events[k].refcount > 0)
  /\ [][\A v \in Vcpus : \A n \in EventNums :
          LET k == kvm_sdei_find_kvm_event(kvm_events, n)
              index == RelevantIndex(v, n)
          IN /\ (/\ Hvc(v, GuestContext, RegisterCall(v, n), TRUE)
                 /\ vcpu_regs'[v].regs[0] = SDEI_SUCCESS
                 /\ k = 0)
                  => /\ Len(kvm_events') = Len(kvm_events) + 1
                     /\ kvm_events'[Len(kvm_events')].num = n
                     /\ kvm_events'[Len(kvm_events')].registered = {index}
                     /\ kvm_events'[Len(kvm_events')].refcount = 0
             /\ (/\ k # 0
                 /\ Hvc(v, GuestContext, <<SDEI_1_0_FN_SDEI_EVENT_UNREGISTER, n>>, TRUE)
                 /\ vcpu_regs'[v].regs[0] = SDEI_SUCCESS)
                  => IF kvm_events[k].registered = {index}
                     THEN /\ kvm_events[k].refcount = 0
                          /\ ~HasRecord(n)'
                          /\ AnswerOf(v, <<SDEI_1_0_FN_SDEI_EVENT_STATUS, n>>)' = 0
                          /\ AnswerOf(v, <<SDEI_1_0_FN_SDEI_EVENT_ENABLE, n>>)'
                                = SDEI_INVALID_PARAMETERS
                          /\ AnswerOf(v, RegisterCall(v, n))' = SDEI_SUCCESS
                     ELSE /\ HasRecord(n)'
                          /\ kvm_events'[k].registered = kvm_events[k].registered \ {index}
     ]_vars

\* One VCPU has unregistered the default event, which the other VCPU keeps
\* registered: the record is still there, with the entry point the first
\* one had registered.
C24_RecordOutlivesOneIndex ==
  \E k \in 1..Len(kvm_events) :
    /\ kvm_events[k].num = KVM_SDEI_DEFAULT_NUM
    /\ kvm_events[k].registered = {0}
    /\ kvm_events[k].entries[1] = EntryOf(1)
    /\ vcpu_regs[1].regs[0] = SDEI_SUCCESS

\* C25: a cancellation of an event that is queued on the VCPU and not
\* running in one of its lanes succeeds and leaves no queued instance of
\* it, so that the delivery that follows does not pick it; a cancellation
\* of an event running in a lane of the VCPU fails with Busy and changes
\* nothing; and a delivery only ever occupies a lane with an event that is
\* queued.
C25_CancelDropsPending ==
  /\ [](\A v \in Vcpus : \A n \in EventNums :
         LET vs == vsdei[v]
             o == kvm_sdei_cancel(v, n)
             queued == QueuedOn(vs.critical_events, n) + QueuedOn(vs.normal_events, n)
         IN /\ (vs.critical_event = n \/ vs.normal_event = n)
                 => /\ o.ret = "Busy"
                    /\ o.vs = vs
                    /\ o.kvm_events = kvm_events
                    /\ o.req = requests[v]
            /\ (queued > 0 /\ vs.critical_event # n /\ vs.normal_event # n)
                 => /\ o.ret = "Ok"
                    /\ QueuedOn(o.vs.critical_events, n) = 0
                    /\ QueuedOn(o.vs.normal_events, n) = 0
                    /\ SelectEvent(o.vs) # n
                    /\ o.vs.critical_event = vs.critical_event
                    /\ o.vs.normal_event = vs.normal_event)
  /\ [][\A v \in Vcpus :
          DeliveredNum(v) # 0
            => QueuedOn(vsdei[v].critical_events, DeliveredNum(v))
               + QueuedOn(vsdei[v].normal_events, DeliveredNum(v)) > 0
     ]_vars

\* A pending event has been cancelled after its injection flagged a
\* delivery request: the request is there, nothing is queued or running and
\* the record holds no instance.
C25_CancelledBeforeDelivery ==
  \E v \in Vcpus :
    /\ requests[v]
    /\ vsdei[v].critical_events = << >>
    /\ vsdei[v].critical_event = 0
    /\ \E k \in 1..Len(kvm_events) :
         /\ kvm_events[k].num = KVM_SDEI_DEFAULT_NUM
         /\ kvm_events[k].enabled = {v}
         /\ kvm_events[k].refcount = 0

C28_ResumesAtResumeAddress ==
  [][\A v \in Vcpus :
       LET vs == vsdei[v]
           saved == IF vs.critical_event # 0 THEN vs.critical_regs
                    ELSE vs.normal_regs
       IN (/\ vs.critical_event # 0 \/ vs.normal_event # 0
           /\ CompleteAndResumeCall(v))
            => /\ vcpu_regs'[v].regs = saved.regs
               /\ vcpu_regs'[v].elr_el1 = saved.pc
               /\ vcpu_regs'[v].spsr_el1 = saved.pstate
               /\ vcpu_regs'[v].pc = ResumeOf(v)
               /\ BitAnd(vcpu_regs'[v].pstate, PSR_MODE_MASK) = PSR_MODE_EL1h
               /\ BitAnd(vcpu_regs'[v].pstate,
                         PSR_D_BIT + PSR_A_BIT + PSR_I_BIT + PSR_F_BIT)
                    = PSR_D_BIT + PSR_A_BIT + PSR_I_BIT + PSR_F_BIT
  ]_vars

\* C29: an allocation that fails in kvm_sdei_init_vm or in
\* kvm_sdei_create_vcpu aborts the creation: the VM or the VCPU is not
\* there afterwards, and the host has not faulted.
C29_AllocationFailureAbortsCreation ==
  [][/\ \A ksdei_ok \in BOOLEAN : \A kse_ok \in BOOLEAN :
          (InitVm(ksdei_ok, kse_ok) /\ ~(ksdei_ok /\ kse_ok))
            => (arch_sdei'.kvm = "none" /\ ~oops')
     /\ \A v \in Vcpus :
          (CreateVcpu(v, FALSE) /\ arch_sdei.kvm = "set")
            => (arch_sdei'.vcpu[v] = "none" /\ ~oops')
  ]_vars

\* C30: kvm_sdei_register_notifier fails with -EINVAL and changes nothing
\* when the number is not an exposed event's; when it succeeds the event's
\* notifier is the function passed, whatever notifier the event had; and a
\* step calls a notifier only when it delivers or completes an event whose
\* notifier is set, and then calls that function with the VCPU, the
\* event's number and the phase.
C30_OnlyCurrentNotifierCalled ==
  /\ [](\A n \in {KVM_SDEI_DEFAULT_NUM, UndefinedNum} : \A f \in Notifiers :
         LET e == kvm_sdei_find_event(n)
             o == kvm_sdei_register_notifier(n, f)
         IN IF e = 0
            THEN o.ret = "EINVAL" /\ o.events = events
            ELSE /\ o.ret = "0"
                 /\ o.events[e].notifier = f
                 /\ o.events = [events EXCEPT ![e].notifier = f])
  /\ [][\A v \in Vcpus :
         LET n == DeliveredNum(v)
             running == IF vsdei[v].critical_event # 0
                        THEN vsdei[v].critical_event ELSE vsdei[v].normal_event
             completes == CompleteCall(v) /\ running # 0
             m == IF completes THEN running ELSE n
             f == IF m = 0 THEN 0 ELSE events[kvm_sdei_find_event(m)].notifier
         IN notified'[v].last =
              IF f = 0 THEN notified[v].last
              ELSE <<f, v, m, IF completes THEN KVM_SDEI_NOTIFY_COMPLETED
                              ELSE KVM_SDEI_NOTIFY_DELIVERED>>
    ]_vars

\* The notifier called when the running instance was delivered has been
\* replaced by another since.
C30_ReplacedWhileRunning ==
  \E v \in Vcpus :
    /\ vsdei[v].critical_event = KVM_SDEI_DEFAULT_NUM
    /\ notified[v].last = <<AsyncNotifier, v, KVM_SDEI_DEFAULT_NUM,
                            KVM_SDEI_NOTIFY_DELIVERED>>
    /\ events[kvm_sdei_find_event(KVM_SDEI_DEFAULT_NUM)].notifier
         = AsyncNotifier + 1

\* C31: KVM_SDEI_CMD_SET_EVENT rejects a number that is not a virtual
\* event's and a number an exposed event has, and leaves the events as they
\* are; otherwise it adds one event of the type and priority given, after
\* the others; so no two exposed events ever have the same number.
C31_DefineKeepsNumbersUnique ==
  /\ \A i \in 1..Len(events) : \A j \in 1..Len(events) :
       events[i].num = events[j].num => i = j
  /\ \A e \in DefinableEvents \cup DefineInputs :
       LET o == kvm_sdei_set_event(e, TRUE)
       IN IF ~WellFormed(e.num)
          THEN o.ret = "EINVAL" /\ o.events = events
          ELSE IF \E i \in 1..Len(events) : events[i].num = e.num
          THEN o.ret = "EEXIST" /\ o.events = events
          ELSE /\ o.ret = "0"
               /\ Len(o.events) = Len(events) + 1
               /\ SubSeq(o.events, 1, Len(events)) = events
               /\ o.events[Len(o.events)].num = e.num
               /\ o.events[Len(o.events)].type = e.type
               /\ o.events[Len(o.events)].priority = e.priority

\* A private event of critical priority has been defined beside the
\* default event, whose number is then refused.
C31_PrivateEventDefined ==
  /\ Len(events) = 2
  /\ events[2].num = SharedNum + 1
  /\ events[2].type = SDEI_EVENT_TYPE_PRIVATE
  /\ events[2].priority = SDEI_EVENT_PRIORITY_CRITICAL
  /\ kvm_sdei_set_event(events[2], TRUE).ret = "EEXIST"

\* C32: KVM_SDEI_CMD_GET_KEVENT called with an invalid number fetches the
\* first registration record, called with the number of a record fetches
\* the record after it, and fails with -ENOENT after the last one; the
\* records' numbers differ, so the walk from the invalid number fetches
\* every record once, in list order, as many as
\* KVM_SDEI_CMD_GET_KEVENT_COUNT counts.
C32_EnumerationVisitsEachRecord ==
  LET n == Len(kvm_events)
      first == kvm_sdei_get_kevent(KVM_SDEI_INVALID_NUM)
  IN /\ kvm_sdei_get_kevent_count = n
     /\ \A i \in 1..n : \A j \in 1..n :
          kvm_events[i].num = kvm_events[j].num => i = j
     /\ IF n = 0 THEN first.ret = "ENOENT"
        ELSE first.ret = "0" /\ first.state = kvm_events[1]
     /\ \A i \in 1..n :
          LET next == kvm_sdei_get_kevent(kvm_events[i].num)
          IN IF i = n THEN next.ret = "ENOENT"
             ELSE next.ret = "0" /\ next.state = kvm_events[i + 1]

\* Two records, the shared event's before the default event's: the walk
\* fetches the shared event's, then the default event's, then none.
C32_TwoRecordsEnumerated ==
  /\ Len(kvm_events) = 2
  /\ kvm_sdei_get_kevent(KVM_SDEI_INVALID_NUM).state.num = SharedNum
  /\ kvm_sdei_get_kevent(SharedNum).state.num = KVM_SDEI_DEFAULT_NUM
  /\ kvm_sdei_get_kevent(KVM_SDEI_DEFAULT_NUM).ret = "ENOENT"
  /\ kvm_sdei_get_kevent_count = 2

\* C33: SDEI_EVENT_ENABLE and SDEI_EVENT_DISABLE of an event whose record
\* counts an instance in flight (refcount not zero) answer SDEI_PENDING,
\* never SDEI_SUCCESS or SDEI_DENIED, whatever the registered and enabled
\* bits of the caller are, and leave the registered and enabled bits of
\* every index of every record as they were.
C33_EnableWhileInFlightIsPending ==
  [][\A v \in Vcpus : \A n \in EventNums :
       \A f \in {SDEI_1_0_FN_SDEI_EVENT_ENABLE, SDEI_1_0_FN_SDEI_EVENT_DISABLE} :
         (HasRecord(n) /\ ~Quiescent(n) /\ Hvc(v, GuestContext, <<f, n>>, TRUE))
           => /\ vcpu_regs'[v].regs[0] = SDEI_PENDING
              /\ Len(kvm_events') = Len(kvm_events)
              /\ \A k \in 1..Len(kvm_events) :
                   /\ kvm_events'[k].registered = kvm_events[k].registered
                   /\ kvm_events'[k].enabled = kvm_events[k].enabled
  ]_vars

\* A call about an event with an instance in flight has been answered
\* SDEI_PENDING on a VCPU where the event is registered and enabled, no
\* lane of which is busy.
C33_PendingAnswerOnEnabledEvent ==
  \E v \in Vcpus : \E n \in EventNums :
    /\ vcpu_regs[v].regs[0] = SDEI_PENDING
    /\ RegisteredFor(v, n) /\ EnabledFor(v, n) /\ ~Quiescent(n)
    /\ vsdei[v].critical_event = 0 /\ vsdei[v].normal_event = 0

\* C34: whenever no VCPU stands inside the decrement of a completion, the
\* refcount of every registration record equals the number of instances of
\* its event outstanding over all VCPUs (queued, or delivered and not yet
\* completed); so once every instance has been completed the count is zero
\* and SDEI_EVENT_ENABLE and SDEI_EVENT_UNREGISTER are no longer answered
\* SDEI_PENDING.
C34_RefcountCountsOutstanding ==
  (\A v \in Vcpus : completing[v] = << >>)
    => \A k \in 1..Len(kvm_events) :
         kvm_events[k].refcount =
           QueuedOn(vsdei[0].critical_events, kvm_events[k].num)
           + QueuedOn(vsdei[0].normal_events, kvm_events[k].num)
           + QueuedOn(vsdei[1].critical_events, kvm_events[k].num)
           + QueuedOn(vsdei[1].normal_events, kvm_events[k].num)

\* C35: a private event is registered and enabled on VCPU i, which has no
\* instance of it queued or running, and registered on VCPU j, which runs
\* an instance in one of its lanes.  Then SDEI_EVENT_STATUS on VCPU i does
\* not report Running, and SDEI_EVENT_DISABLE and SDEI_EVENT_UNREGISTER on
\* VCPU i are decided by the state of VCPU i, so they succeed, and are not
\* answered SDEI_PENDING.
C35_PrivateEventJudgedPerVcpu ==
  \A i \in Vcpus : \A j \in Vcpus \ {i} : \A n \in EventNums :
    LET c == LoadArgs(GuestAt(vcpu_regs[i], GuestContext), <<0, n>>)
    IN (/\ \A w \in Vcpus : completing[w] = << >>
        /\ HasRecord(n)
        /\ events[kvm_sdei_find_event(n)].type = SDEI_EVENT_TYPE_PRIVATE
        /\ i \in kvm_events[kvm_sdei_find_kvm_event(kvm_events, n)].registered
        /\ i \in kvm_events[kvm_sdei_find_kvm_event(kvm_events, n)].enabled
        /\ j \in kvm_events[kvm_sdei_find_kvm_event(kvm_events, n)].registered
        /\ QueuedOn(vsdei[i].critical_events, n) = 0
        /\ QueuedOn(vsdei[i].normal_events, n) = 0
        /\ n \in {vsdei[j].critical_event, vsdei[j].normal_event})
       => /\ \A ub \in {"private", "other"} :
               (kvm_sdei_hypercall_status(i, c, ub).ret
                  \div (2 ^ SDEI_EVENT_STATUS_RUNNING)) % 2 = 0
          /\ kvm_sdei_hypercall_enable(i, c, FALSE).ret = SDEI_SUCCESS
          /\ kvm_sdei_hypercall_unregister(i, c).ret = SDEI_SUCCESS

\* C36: no thread takes, or waits for, the VM's lock ksdei->lock while it
\* holds the lock vsdei->lock of a VCPU; and the threads never deadlock on
\* these locks: whenever a thread is inside a function, some thread can
\* take or release a lock.
C36_VmLockBeforeVcpuLock ==
  /\ \A t \in Threads :
       (\E i \in 1..Len(locks[t].held) : locks[t].held[i][1] = "vsdei->lock")
         => /\ \A i \in 1..Len(locks[t].todo) : locks[t].todo[i][1] # "ksdei->lock"
            /\ locks[t].held[1][1] = "vsdei->lock"
  /\ (\E t \in Threads : locks[t].fn # "")
       => \E t \in Threads :
            \/ locks[t].todo = << >> /\ locks[t].held # << >>
            \/ /\ locks[t].todo # << >>
               /\ \A u \in Threads : \A i \in 1..Len(locks[u].held) :
                    locks[u].held[i] # Head(locks[t].todo)

\* Another thread, injecting into VCPU 0, holds the VM's lock and waits
\* for the lock of VCPU 0, which the VCPU's thread holds in its completion,
\* while the thread of VCPU 1 waits for the VM's lock.
C36_InjectionWaitsForCompletion ==
  /\ locks[2].fn = "kvm_sdei_inject"
  /\ locks[2].held = << <<"ksdei->lock", 0>> >>
  /\ locks[2].todo = << <<"vsdei->lock", 0>> >>
  /\ locks[0].fn = "kvm_sdei_hypercall_complete"
  /\ locks[0].held = << <<"vsdei->lock", 0>> >>
  /\ locks[1].fn = "kvm_sdei_hypercall_register"
  /\ locks[1].todo = << <<"ksdei->lock", 0>> >>

\* C40: kvm_async_pf_add_slot of a page that is not in the table makes
\* kvm_async_pf_find_slot true of it, kvm_async_pf_remove_slot makes it
\* false of the page removed, and both leave it as it was for every other
\* page, so that it is true exactly of the pages added and not removed,
\* whatever the removal has shifted back; and neither spins: the host is
\* never stuck in them.
C40_FindSlotTellsLivePages ==
  /\ []~oops
  /\ [][\A v \in DeliveryVcpus : \A gfn \in Gfns :
         /\ AddSlot(v, gfn) =>
              /\ kvm_async_pf_find_slot(apf'[v].gfns, gfn)
              /\ \A h \in Gfns \ {gfn} :
                   kvm_async_pf_find_slot(apf'[v].gfns, h)
                     = kvm_async_pf_find_slot(apf[v].gfns, h)
         /\ RemoveSlot(v, gfn) =>
              /\ ~kvm_async_pf_find_slot(apf'[v].gfns, gfn)
              /\ \A h \in Gfns \ {gfn} :
                   kvm_async_pf_find_slot(apf'[v].gfns, h)
                     = kvm_async_pf_find_slot(apf[v].gfns, h)
     ]_vars

\* Pages have been added and removed: page 5 sits in the slot it hashes
\* to, which is that of page 2 too, page 2 is not in the table, and page 6
\* sits away from the slot it hashes to.
C40_ShiftedBack ==
  \E v \in DeliveryVcpus :
    /\ kvm_async_pf_hash(5) = kvm_async_pf_hash(2)
    /\ apf[v].gfns[kvm_async_pf_hash(5)] = 5
    /\ ~kvm_async_pf_find_slot(apf[v].gfns, 2)
    /\ \E i \in DOMAIN apf[v].gfns :
         apf[v].gfns[i] = 6 /\ i # kvm_async_pf_hash(6)

\* C37: when kvm_arch_async_page_not_present returns false, because a
\* write of the token or of the reason failed or because the immediate
\* injection of the SDEI event failed, it leaves nothing behind:
\* notpresent_pending is false, notpresent_token is 0, the reason and token
\* words shared with the guest are zero and the slot of the page is not in
\* the table; and notpresent_pending is true only while an injected
\* page-not-present event waits to be delivered.
C37_FailedNotificationLeavesNothing ==
  /\ [][\A v \in DeliveryVcpus : \A wr \in {"ok", "token", "reason"} :
         (/\ SetupAsyncPf(v, wr)
          /\ ~kvm_arch_async_page_not_present(v, apf[v].id * 4096 + v, wr).ret)
           => /\ ~apf'[v].notpresent_pending
              /\ apf'[v].notpresent_token = 0
              /\ apf'[v].reason = 0
              /\ apf'[v].token = 0
              /\ ~kvm_async_pf_find_slot(apf'[v].gfns, apf[v].id + 1)
     ]_vars
  /\ [](\A v \in DeliveryVcpus :
          apf[v].notpresent_pending
            => QueuedOn(vsdei[v].critical_events, sdei_event_num)
               + QueuedOn(vsdei[v].normal_events, sdei_event_num) > 0)

\* C38: when a normal event is delivered, a critical event is delivered on
\* top of it and the guest calls SDEI_EVENT_COMPLETE twice, the first call
\* completes the critical event and restores x0..x17, PC and PSTATE as they
\* were when the critical event was delivered, inside the normal handler,
\* and the second completes the normal event and restores them as they were
\* before the normal delivery; both lanes are idle afterwards.  Step by
\* step: the delivery on top saves the live context in the critical lane
\* and leaves the normal lane alone, an occupied lane keeps its context,
\* the first completion restores from the critical lane and frees it only,
\* the second restores from the normal lane and frees it.
C38_NestedCompletionUnwinds ==
  [][\A v \in DeliveryVcpus :
       LET vs == vsdei[v]
       IN /\ (Deliver(v) /\ vs.normal_event # 0 /\ vs.critical_event = 0
                         /\ vsdei'[v].critical_event # 0)
               => /\ vsdei'[v].critical_regs = Live(vcpu_regs[v])
                  /\ vsdei'[v].normal_regs = vs.normal_regs
                  /\ vsdei'[v].normal_event = vs.normal_event
          /\ (vs.critical_event # 0 /\ vsdei'[v].critical_event # 0)
               => vsdei'[v].critical_regs = vs.critical_regs
          /\ (vs.normal_event # 0 /\ vsdei'[v].normal_event # 0)
               => vsdei'[v].normal_regs = vs.normal_regs
          /\ (CompleteCall(v) /\ vs.critical_event # 0 /\ vs.normal_event # 0)
               => /\ Live(vcpu_regs'[v]) = vs.critical_regs
                  /\ vsdei'[v].critical_event = 0
                  /\ vsdei'[v].normal_event = vs.normal_event
          /\ (CompleteCall(v) /\ vs.critical_event = 0 /\ vs.normal_event # 0)
               => /\ Live(vcpu_regs'[v]) = vs.normal_regs
                  /\ vsdei'[v].critical_event = 0
                  /\ vsdei'[v].normal_event = 0
    ]_vars

\* Both completions have happened: both lanes are idle, the critical lane's
\* context is that of the normal event's handler at its entry (x0 the
\* number of the normal event, PC its entry point), the normal lane's
\* context is the guest's, and the guest's context is live again.
C38_UnwoundToGuest ==
  \E v \in DeliveryVcpus :
    /\ vsdei[v].critical_event = 0
    /\ vsdei[v].normal_event = 0
    /\ vsdei[v].critical_regs.regs[0] = SharedNum
    /\ vsdei[v].critical_regs.pc = EntryOf(v)
    /\ vsdei[v].normal_regs.pc = GuestContext.pc
    /\ Live(vcpu_regs[v]) = vsdei[v].normal_regs

\* C39: in every reachable state of a VCPU, state.critical_num is the
\* number of the event that occupies the critical lane and is
\* KVM_SDEI_INVALID_NUM (0) exactly when the critical lane is empty, and
\* likewise state.normal_num for the normal lane.
C39_NumsAgreeWithLanes ==
  \A v \in Vcpus :
    /\ vsdei[v].critical_num = vsdei[v].critical_event
    /\ vsdei[v].normal_num = vsdei[v].normal_event
    /\ (vsdei[v].critical_num = KVM_SDEI_INVALID_NUM) <=> (vsdei[v].critical_event = 0)
    /\ (vsdei[v].normal_num = KVM_SDEI_INVALID_NUM) <=> (vsdei[v].normal_event = 0)
    /\ vsdei[v].critical_event # 0
         => kvm_sdei_is_valid_event_num(vsdei[v].critical_num)
    /\ vsdei[v].normal_event # 0
         => kvm_sdei_is_valid_event_num(vsdei[v].normal_num)

\* Both lanes of a VCPU are occupied and each number names its lane's event.
C39_BothNumsSet ==
  \E v \in Vcpus :
    /\ vsdei[v].critical_num = KVM_SDEI_DEFAULT_NUM
    /\ vsdei[v].normal_num = SharedNum
    /\ vsdei[v].critical_event # 0
    /\ vsdei[v].normal_event # 0

====
